---- MODULE Spec2Model ----
(***************************************************************************)
(* State-machine model of the draft mutation paths of thunderbird-mcp      *)
(* (extension/mcp_server/api.js).                                          *)
(*                                                                         *)
(*  Part I  (specification Spec): saveDraft and replyToMessageDraft, the   *)
(*          shared set _pendingDraftMessageIds, the backend copy/save jobs *)
(*          and the Drafts folder.                                         *)
(*  Part II (specification SpecRevise): reviseDraftInPlaceNativeEditor,    *)
(*          its save, after-save polling, folder scan and reconciliation.  *)
(*  SpecKeys:    Part I on every idempotencyKey argument of the model.     *)
(*  SpecOverlap: Part II with a second, overlapping revise call.           *)
(*  SpecCompose: the body edit of Part II on markup.                       *)
(*  SpecStart:   the start of the server from the background script.      *)
(*  SpecServing: the HTTP request handler and callTool over Parts I, II.   *)
(*  SpecDelete:  deleteMessages and moveMessages on one folder.            *)
(*  SpecLines:   _linesFromText on payloads of its own.                    *)
(***************************************************************************)
EXTENDS Integers, Sequences, FiniteSets, Bags, TLC

\* ------------------------------------------------------------------------
\* Bounds of the model (not program constants)
\* ------------------------------------------------------------------------
\* Number of tool calls (saveDraft / replyToMessageDraft) issued in one run.
MaxCalls == 2

\* ------------------------------------------------------------------------
\* Part I: tokens and deterministic Message-IDs
\* ------------------------------------------------------------------------
\* Characters are one-letter strings; a key is a sequence of characters.
LowerAlnum == {"k", "n", "w", "a", "b", "c", "d", "e", "f",
               "0", "1", "2", "3", "4", "5", "6", "7", "8", "9"}
UpperOf == [x \in {"K"} |-> "k"]

\* String.prototype.toLowerCase on one character.
ToLowerCase(ch) == IF ch \in DOMAIN UpperOf THEN UpperOf[ch] ELSE ch

\* The character class [a-z0-9._-] of _sanitizeMessageIdToken.
IsTokenChar(ch) == ch \in LowerAlnum \cup {".", "_", "-"}

RECURSIVE MapLower(_)
MapLower(s) == IF s = <<>> THEN <<>> ELSE <<ToLowerCase(Head(s))>> \o MapLower(Tail(s))

\* .replace(/[^a-z0-9._-]+/g, "-"): every maximal run of other characters
\* becomes one "-".
RECURSIVE ReplaceInvalidRuns(_, _)
ReplaceInvalidRuns(s, inRun) ==
  IF s = <<>> THEN <<>>
  ELSE IF IsTokenChar(Head(s))
       THEN <<Head(s)>> \o ReplaceInvalidRuns(Tail(s), FALSE)
       ELSE (IF inRun THEN <<>> ELSE <<"-">>) \o ReplaceInvalidRuns(Tail(s), TRUE)

\* .replace(/-+/g, "-")
RECURSIVE CollapseDashes(_, _)
CollapseDashes(s, afterDash) ==
  IF s = <<>> THEN <<>>
  ELSE IF Head(s) = "-"
       THEN (IF afterDash THEN <<>> ELSE <<"-">>) \o CollapseDashes(Tail(s), TRUE)
       ELSE <<Head(s)>> \o CollapseDashes(Tail(s), FALSE)

\* .replace(/^-|-$/g, ""): one leading and one trailing dash are removed.
TrimDash(s) ==
  LET a == IF s # <<>> /\ Head(s) = "-" THEN Tail(s) ELSE s
  IN  IF a # <<>> /\ a[Len(a)] = "-" THEN SubSeq(a, 1, Len(a) - 1) ELSE a

\* .slice(0, 120)
TokenSliceLen == 120

_sanitizeMessageIdToken(token) ==
  LET t == TrimDash(CollapseDashes(ReplaceInvalidRuns(MapLower(token), FALSE), FALSE))
  IN  SubSeq(t, 1, IF Len(t) < TokenSliceLen THEN Len(t) ELSE TokenSliceLen)

\* _getEmailDomain of the default identity; one identity in the model.
Domain == "local"

\* `tb-mcp-draft-${token}@${domain}` (api.js 1222-1224, 2673, 2919).
DraftMessageId(key) == <<"tb-mcp-draft-", _sanitizeMessageIdToken(key), Domain>>

\* Message-ID that the compose window gives to a draft it saves itself: the
\* deterministic id is never handed to the compose window.
ComposeMessageId(c) == <<"compose-", <<ToString(c)>>, Domain>>

NoId == <<"none", <<>>, Domain>>

\* Idempotency keys the callers use.
Keys == {<<"K", "1">>, <<"k", "2">>}

\* ------------------------------------------------------------------------
\* The key and the Message-ID of saveDraft (api.js 1174-1184, 1220-1224, 1524)
\* ------------------------------------------------------------------------
\* A 32-bit unsigned integer is kept as two 16-bit halves <<hi, lo>>.
Half == 65536

\* a ^ b on the lowest n bits.
RECURSIVE XorBits(_, _, _)
XorBits(a, b, n) ==
  IF n = 0 THEN 0
  ELSE (((a % 2) + (b % 2)) % 2) + 2 * XorBits(a \div 2, b \div 2, n - 1)

\* String.prototype.charCodeAt for the characters of the model.
CharCode ==
  [ch \in {"a", "b", "|", "u", "n", "d", "e", "f", "i"} |->
     CASE ch = "a" -> 97 [] ch = "b" -> 98 [] ch = "|" -> 124 [] ch = "u" -> 117
       [] ch = "n" -> 110 [] ch = "d" -> 100 [] ch = "e" -> 101 [] ch = "f" -> 102
       [] OTHER -> 105]

\* 2166136261 = 0x811C9DC5 and 16777619 = 2^24 + 0x193.
FnvOffset == <<33052, 40389>>
FnvPrimeLow == 403

\* h ^= code; h = Math.imul(h, 16777619), modulo 2^32.
FnvStep(h, code) ==
  LET lo == XorBits(h[2], code, 16)
      p0 == lo * FnvPrimeLow
      p1 == h[1] * FnvPrimeLow
  IN  <<(p1 + (p0 \div Half) + ((lo % 256) * 256)) % Half, p0 % Half>>

RECURSIVE FnvFold(_, _)
FnvFold(h, str) == IF str = <<>> THEN h ELSE FnvFold(FnvStep(h, CharCode[Head(str)]), Tail(str))

HexDigits == <<"0", "1", "2", "3", "4", "5", "6", "7", "8", "9", "a", "b", "c", "d", "e", "f">>

\* Number.prototype.toString(16) of n, padded to at least `width` digits.
RECURSIVE ToHex(_, _)
ToHex(n, width) ==
  IF n < 16 /\ width <= 1 THEN <<HexDigits[n + 1]>>
  ELSE Append(ToHex(n \div 16, width - 1), HexDigits[(n % 16) + 1])

\* (h >>> 0).toString(16)
_simpleHash32Hex(str) ==
  LET h == FnvFold(FnvOffset, str)
  IN  IF h[1] = 0 THEN ToHex(h[2], 1) ELSE ToHex(h[1], 1) \o ToHex(h[2], 4)

\* The string `${to}|${cc}|${subject}|${body}` of a request.
Contents == {<<"a", "|", "|", "|">>, <<"b", "|", "|", "|">>}

\* 1524: key = idempotencyKey || `new-${_simpleHash32Hex(...)}`; an absent
\* or empty idempotencyKey is <<>>.
SaveDraftKey(idempotencyKey, content) ==
  IF idempotencyKey # <<>> THEN idempotencyKey
  ELSE <<"n", "e", "w", "-">> \o _simpleHash32Hex(content)

\* 1220-1224: the Message-ID _makeRfc822Draft gives the draft; `now` is
\* Date.now(). An empty token is falsy.
_makeRfc822Draft(idempotencyKey, now) ==
  LET token == IF idempotencyKey # <<>> THEN _sanitizeMessageIdToken(idempotencyKey) ELSE <<>>
  IN  IF token # <<>> THEN <<"tb-mcp-draft-", token, Domain>>
      ELSE <<"tb-mcp-draft-", <<now>>, Domain>>

\* The idempotencyKey arguments of saveDraft: the keys above, a key that
\* differs from one of them in case only, a key without any character of
\* [a-z0-9._-], and no key.
SaveDraftKeys == Keys \cup {<<"k", "1">>, <<"!">>, <<>>}

\* Values of Date.now() at the calls.
Clock == {"t1", "t2"}

Calls == 1..MaxCalls

VARIABLES
  op,        \* op[c]: the tool call c is ("none" before it is issued)
  tok,       \* tok[c]: the draft Message-ID call c derived (NoId if none)
  resp,      \* resp[c]: the result returned to the caller of c
  bg,        \* bg[c]: position of c's asynchronous continuation
  backend,   \* backend[c]: the backend copy/save job started by c
  _pendingDraftMessageIds,   \* api.js 1270
  drafts,    \* the Drafts folder: bag of Message-IDs
  req,       \* req[c]: idempotencyKey and content of the saveDraft call c
  _pendingCopyListeners,   \* api.js 1268: calls whose copy listener is held
  _pendingSendListeners,   \* api.js 1338: <<d, c>>: a send listener of call d
                           \* on a save of the compose window call c opened
  observers, \* calls whose window observer is registered with Services.ww
  timers,    \* calls whose one-shot timer (1277, 1400) is armed
  watchers   \* watchers[c]: the other calls whose observer saw the window of
             \* c open and whose load listener on it has not run yet

listenerVars == <<_pendingCopyListeners, _pendingSendListeners, observers, timers, watchers>>
draftVars == <<op, tok, resp, bg, backend, _pendingDraftMessageIds, drafts, req,
               _pendingCopyListeners, _pendingSendListeners, observers, timers, watchers>>

\* The state of a reviseDraftInPlaceNativeEditor call (Part II).
VARIABLES
  rpc,      \* position of the call
  args,     \* messageId, plainTextBody, preserveQuotedOriginal, closeAfterSave
  loc,      \* the call's local variables
  draftsFolder,   \* the Drafts folder: messages in the order messages.list gives
  saveJob,  \* the backend save started by compose.saveMessage
  tab,      \* the compose tab opened by compose.beginNew
  result,   \* the value returned to the caller
  peer,     \* position of a second, overlapping call for the same draft
  details   \* the compose body of the tab as markup, before and after the edit

reviseVars == <<rpc, args, loc, draftsFolder, saveJob, tab, result, peer, details>>

\* The HTTP gateway of the extension and its start.
VARIABLES
  srv,      \* the start of the server: globalThis.__tbMcpStartPromise, the
            \* background page's _mcpStartPromise, the calls of init and start
  gw        \* the request the path handler is serving and what it wrote

gateVars == <<srv, gw>>

\* The mail folders the delete and move tools act on, and one deleteMessages
\* call.
VARIABLES
  mailFolders,  \* folder URI -> the Message-IDs of its headers, in the order
                \* of db.enumerateMessages(); the domain is the folders that exist
  del           \* the deleteMessages call: its arguments, position and result

deleteVars == <<mailFolders, del>>

\* No deleteMessages call was made, and no folder is looked at.
NoDelResult == [status |-> "none", count |-> 0, via |-> "none"]
NoDel == [pos |-> "idle", folderPath |-> "none", messageIds |-> <<>>, to |-> "none",
          hdrs |-> <<>>, before |-> <<>>, result |-> NoDelResult]
NoDeleteCall == mailFolders = <<>> /\ del = NoDel

\* One evaluation of _linesFromText on a payload.
VARIABLE
  want          \* the payload, whether the function returned, and its value

linesVars == <<want>>
NoWant == [plainTextBody |-> <<>>, pos |-> "idle", wantLines |-> <<>>]
vars == <<op, tok, resp, bg, backend, _pendingDraftMessageIds, drafts, req,
          _pendingCopyListeners, _pendingSendListeners, observers, timers, watchers,
          rpc, args, loc, draftsFolder, saveJob, tab, result, peer, details,
          srv, gw, mailFolders, del, want>>

NoResp == [kind |-> "none", messageId |-> NoId]
Result(kind, id) == [kind |-> kind, messageId |-> id]

\* _findDraftByMessageId: a header with this messageId is in the folder db.
FindDraftByMessageIdNever(folder, messageId) == FALSE
_findDraftByMessageId(folder, messageId) == BagIn(messageId, folder)

NoReq == [idempotencyKey |-> <<>>, content |-> <<>>]

InitDraft ==
  /\ req = [c \in Calls |-> NoReq]
  /\ op = [c \in Calls |-> "none"]
  /\ tok = [c \in Calls |-> NoId]
  /\ resp = [c \in Calls |-> NoResp]
  /\ bg = [c \in Calls |-> "none"]
  /\ backend = [c \in Calls |-> "none"]
  /\ _pendingDraftMessageIds = {}
  /\ drafts = EmptyBag
  /\ _pendingCopyListeners = {}
  /\ _pendingSendListeners = {}
  /\ observers = {}
  /\ timers = {}
  /\ watchers = [c \in Calls |-> {}]

\* Calls are issued in index order (they are interchangeable).
CanIssue(c) == op[c] = "none" /\ (IF c = 1 THEN TRUE ELSE op[c - 1] # "none")

\* ------------------------------------------------------------------------
\* saveDraft (api.js 1502-1577)
\* ------------------------------------------------------------------------
\* The synchronous part of saveDraft: validation, token derivation, the two
\* duplicate checks, insertion into the pending set and scheduling of the
\* copy runnable. `fault` is where the host raises, if it does.
saveDraft(c, idempotencyKey, content, isHtml, fault, now) ==
  /\ CanIssue(c)
  /\ req' = [req EXCEPT ![c] = [idempotencyKey |-> idempotencyKey, content |-> content]]
  /\ op' = [op EXCEPT ![c] = "saveDraft"]
  /\ UNCHANGED <<backend, drafts>>
  /\ IF isHtml
     THEN \* 1504-1506: rejected before a token is derived
          /\ fault = "none"
          /\ resp' = [resp EXCEPT ![c] = Result("error", NoId)]
          /\ UNCHANGED <<tok, bg, _pendingDraftMessageIds>>
     ELSE LET key == SaveDraftKey(idempotencyKey, content)
              messageId == _makeRfc822Draft(key, now) IN
          /\ tok' = [tok EXCEPT ![c] = messageId]
          /\ IF messageId \in _pendingDraftMessageIds
             THEN \* 1538-1540
                  /\ fault = "none"
                  /\ resp' = [resp EXCEPT ![c] = Result("pending", messageId)]
                  /\ UNCHANGED <<bg, _pendingDraftMessageIds>>
             ELSE IF _findDraftByMessageId(drafts, messageId)
             THEN \* 1543-1546
                  /\ fault = "none"
                  /\ resp' = [resp EXCEPT ![c] = Result("exists", messageId)]
                  /\ UNCHANGED <<bg, _pendingDraftMessageIds>>
             ELSE \/ \* 1548: writing the temp file raises; nothing was added
                     /\ fault = "write"
                     /\ resp' = [resp EXCEPT ![c] = Result("error", NoId)]
                     /\ UNCHANGED <<bg, _pendingDraftMessageIds>>
                  \/ \* 1549, then 1571 raises: the catch at 1574 returns the
                     \* error and nothing removes the id again
                     /\ fault = "dispatch"
                     /\ _pendingDraftMessageIds' = _pendingDraftMessageIds \cup {messageId}
                     /\ resp' = [resp EXCEPT ![c] = Result("error", NoId)]
                     /\ UNCHANGED bg
                  \/ \* 1549-1573
                     /\ fault = "none"
                     /\ _pendingDraftMessageIds' = _pendingDraftMessageIds \cup {messageId}
                     /\ bg' = [bg EXCEPT ![c] = "runnable"]
                     /\ resp' = [resp EXCEPT ![c] = Result("scheduled", messageId)]
  /\ UNCHANGED <<listenerVars, reviseVars>>

\* saveDraft called on its own.
SaveDraft(c, idempotencyKey, content, isHtml, fault, now) ==
  /\ saveDraft(c, idempotencyKey, content, isHtml, fault, now)
  /\ UNCHANGED <<gateVars, deleteVars, linesVars>>

\* The promise chain of the runnable settles: .finally at 1563-1566.
CopySettled(c) ==
  /\ bg' = [bg EXCEPT ![c] = "done"]
  /\ _pendingDraftMessageIds' = _pendingDraftMessageIds \ {tok[c]}

\* The runnable runs _copyFileToFolderAsDraft (1272-1336): the listener is
\* registered, the one-shot timer armed and the copy handed to the backend;
\* or the copy service has no copy function and finish(err) undoes both
\* (1326-1329); or the copy call raises and the catch rejects without
\* finish (1331-1333), leaving the listener and the timer.
\* An exception raised before the listener is added (1274-1306) leaves the
\* state of "nofn".
RunCopy(c, outcome) ==
  /\ op[c] = "saveDraft" /\ bg[c] = "runnable"
  /\ UNCHANGED <<op, tok, resp, drafts>>
  /\ \/ /\ outcome = "started"
        /\ bg' = [bg EXCEPT ![c] = "copying"]
        /\ backend' = [backend EXCEPT ![c] = "inflight"]
        /\ _pendingCopyListeners' = _pendingCopyListeners \cup {c}
        /\ timers' = timers \cup {c}
        /\ UNCHANGED _pendingDraftMessageIds
     \/ /\ outcome = "nofn"
        /\ CopySettled(c)
        /\ UNCHANGED <<backend, _pendingCopyListeners, timers>>
     \/ /\ outcome = "throw"
        /\ CopySettled(c)
        /\ _pendingCopyListeners' = _pendingCopyListeners \cup {c}
        /\ timers' = timers \cup {c}
        /\ UNCHANGED backend
  /\ UNCHANGED <<_pendingSendListeners, observers, watchers>>
  /\ UNCHANGED <<req, reviseVars, gateVars, deleteVars, linesVars>>

\* The backend appends the message to the folder / gives up on the copy.
\* It has not yet called the listener.
BackendCopyLands(c) ==
  /\ op[c] = "saveDraft" /\ backend[c] = "inflight"
  /\ drafts' = drafts (+) SetToBag({tok[c]})
  /\ backend' = [backend EXCEPT ![c] = "landed"]
  /\ UNCHANGED <<op, tok, resp, bg, _pendingDraftMessageIds>>
  /\ UNCHANGED <<req, listenerVars, reviseVars, gateVars, deleteVars, linesVars>>

BackendCopyFails(c) ==
  /\ op[c] = "saveDraft" /\ backend[c] = "inflight"
  /\ backend' = [backend EXCEPT ![c] = "failed"]
  /\ UNCHANGED <<op, tok, resp, bg, _pendingDraftMessageIds, drafts>>
  /\ UNCHANGED <<req, listenerVars, reviseVars, gateVars, deleteVars, linesVars>>

\* listener.OnStopCopy (1295-1305) -> finish (1280-1287): a no-op once done.
OnStopCopy(c) ==
  /\ op[c] = "saveDraft" /\ backend[c] \in {"landed", "failed"}
  /\ backend' = [backend EXCEPT ![c] = IF backend[c] = "landed" THEN "landedTold" ELSE "failedTold"]
  /\ UNCHANGED <<op, tok, resp, drafts>>
  /\ IF bg[c] = "copying"
     THEN /\ CopySettled(c)
          /\ _pendingCopyListeners' = _pendingCopyListeners \ {c}
          /\ timers' = timers \ {c}
     ELSE UNCHANGED <<bg, _pendingDraftMessageIds, _pendingCopyListeners, timers>>
  /\ UNCHANGED <<_pendingSendListeners, observers, watchers>>
  /\ UNCHANGED <<req, reviseVars, gateVars, deleteVars, linesVars>>

\* The one-shot timer fires (1310-1316): finish(error) removes the listener
\* and rejects, which has no effect on a promise the catch at 1332 already
\* rejected. The copy itself is not cancelled; the backend may still
\* complete it.
CopyTimeout(c) ==
  /\ op[c] = "saveDraft" /\ c \in timers
  /\ timers' = timers \ {c}
  /\ _pendingCopyListeners' = _pendingCopyListeners \ {c}
  /\ IF bg[c] = "copying" THEN CopySettled(c) ELSE UNCHANGED <<bg, _pendingDraftMessageIds>>
  /\ UNCHANGED <<op, tok, resp, backend, drafts>>
  /\ UNCHANGED <<_pendingSendListeners, observers, watchers>>
  /\ UNCHANGED <<req, reviseVars, gateVars, deleteVars, linesVars>>

\* ------------------------------------------------------------------------
\* replyToMessageDraft (api.js 2586-2948)
\* ------------------------------------------------------------------------
\* The duplicate checks shared by both reply paths (2675-2681, 2921-2928).
\* Returns the result kind, or "admit".
ReplyAdmission(messageId) ==
  IF messageId \in _pendingDraftMessageIds THEN "pending"
  ELSE IF _findDraftByMessageId(drafts, messageId) THEN "exists"
  ELSE "admit"

\* Default path, from the call to the await at 2933: the lookup of the
\* original (2598-2608), the checks, the insertion and the executor of
\* _saveDraftViaComposeWindow (observer registered, 45 s timer armed,
\* compose window requested). An exception inside the executor resolves the
\* promise with ok: false (1483-1485), so the continuation still runs.
ReplyToMessageDraft(c, key, found, fault) ==
  /\ CanIssue(c)
  /\ op' = [op EXCEPT ![c] = "reply"]
  /\ UNCHANGED <<backend, drafts>>
  /\ IF ~found
     THEN \* 2606-2608
          /\ fault = "none"
          /\ resp' = [resp EXCEPT ![c] = Result("error", NoId)]
          /\ UNCHANGED <<tok, bg, _pendingDraftMessageIds, observers, timers, watchers>>
     ELSE LET draftMessageId == DraftMessageId(key) IN
          /\ tok' = [tok EXCEPT ![c] = draftMessageId]
          /\ IF ReplyAdmission(draftMessageId) # "admit"
             THEN /\ fault = "none"
                  /\ resp' = [resp EXCEPT ![c] = Result(ReplyAdmission(draftMessageId), draftMessageId)]
                  /\ UNCHANGED <<bg, _pendingDraftMessageIds, observers, timers, watchers>>
             ELSE /\ fault \in {"none", "open"}
                  /\ _pendingDraftMessageIds' = _pendingDraftMessageIds \cup {draftMessageId}
                  /\ bg' = [bg EXCEPT ![c] = IF fault = "open" THEN "resolved" ELSE "awaitSave"]
                  /\ observers' = observers \cup {c}                          \* 1480
                  /\ timers' = timers \cup {c}                                \* 1400-1401
                  /\ watchers' = [watchers EXCEPT ![c] = IF fault = "open" THEN {} ELSE observers]
                  /\ UNCHANGED resp
  /\ UNCHANGED <<_pendingCopyListeners, _pendingSendListeners>>
  /\ UNCHANGED <<req, reviseVars, gateVars, deleteVars, linesVars>>

ReplyReturnKeepsToken(c, ok) ==
  /\ bg' = [bg EXCEPT ![c] = "done"]
  /\ UNCHANGED _pendingDraftMessageIds
  /\ resp' = [resp EXCEPT ![c] = Result(IF ok THEN "saved" ELSE "saveFailed", tok[c])]

\* The continuation after the await (2941-2944): the id leaves the pending
\* set and the result is returned.
ReplyReturn(c, ok) ==
  /\ bg' = [bg EXCEPT ![c] = "done"]
  /\ _pendingDraftMessageIds' = _pendingDraftMessageIds \ {tok[c]}
  /\ resp' = [resp EXCEPT ![c] = Result(IF ok THEN "saved" ELSE "saveFailed", tok[c])]

\* finish (1391-1397) of call c's _saveDraftViaComposeWindow: a no-op once
\* finished; else the timer is cancelled, the observer unregistered and the
\* promise resolved, which has no effect on a promise the catch at 1483
\* already resolved.
Finish(c, ok) ==
  IF c \in timers
  THEN /\ timers' = timers \ {c}
       /\ observers' = observers \ {c}
       /\ IF bg[c] = "awaitSave" THEN ReplyReturn(c, ok)
          ELSE UNCHANGED <<bg, resp, _pendingDraftMessageIds>>
  ELSE UNCHANGED <<timers, observers, bg, resp, _pendingDraftMessageIds>>

\* The promise was resolved by the executor's catch; the continuation runs.
ReplyResumeAfterOpenFailed(c) ==
  /\ op[c] = "reply" /\ bg[c] = "resolved"
  /\ ReplyReturn(c, FALSE)
  /\ UNCHANGED <<op, tok, backend, drafts>>
  /\ UNCHANGED <<req, listenerVars, reviseVars, gateVars, deleteVars, linesVars>>

\* The compose window loads and the observer's runnable runs (1403-1471):
\* SendMsg(nsMsgSaveAsDraft) is issued, or no compose instance / SendMsg is
\* found and finish(false) resolves the promise.
ComposeWindowLoaded(c, usable) ==
  /\ op[c] = "reply" /\ bg[c] = "awaitSave" /\ backend[c] = "none"
  /\ UNCHANGED <<op, tok, drafts>>
  /\ IF usable
     THEN /\ backend' = [backend EXCEPT ![c] = "inflight"]
          /\ _pendingSendListeners' = _pendingSendListeners \cup {<<c, c>>}
          /\ UNCHANGED <<bg, resp, _pendingDraftMessageIds, observers, timers>>
     ELSE /\ Finish(c, FALSE)
          /\ UNCHANGED <<backend, _pendingSendListeners>>
  /\ UNCHANGED <<_pendingCopyListeners, watchers>>
  /\ UNCHANGED <<req, reviseVars, gateVars, deleteVars, linesVars>>

\* The backend stores the draft saved from the compose window. Its
\* Message-ID is the one the compose window generated.
BackendSaveLands(c) ==
  /\ op[c] \in {"reply", "replyPrompt"} /\ backend[c] = "inflight"
  /\ drafts' = drafts (+) SetToBag({ComposeMessageId(c)})
  /\ backend' = [backend EXCEPT ![c] = "landed"]
  /\ UNCHANGED <<op, tok, resp, bg, _pendingDraftMessageIds>>
  /\ UNCHANGED <<req, listenerVars, reviseVars, gateVars, deleteVars, linesVars>>

BackendSaveFails(c) ==
  /\ op[c] \in {"reply", "replyPrompt"} /\ backend[c] = "inflight"
  /\ backend' = [backend EXCEPT ![c] = "failed"]
  /\ UNCHANGED <<op, tok, resp, bg, _pendingDraftMessageIds, drafts>>
  /\ UNCHANGED <<req, listenerVars, reviseVars, gateVars, deleteVars, linesVars>>

\* sendListener.onStopSending (1451-1457) -> finish: a no-op once finished.
OnStopSending(c) ==
  /\ op[c] = "reply" /\ backend[c] \in {"landed", "failed"}
  /\ backend' = [backend EXCEPT ![c] = IF backend[c] = "landed" THEN "landedTold" ELSE "failedTold"]
  /\ UNCHANGED <<op, tok, drafts>>
  /\ _pendingSendListeners' = _pendingSendListeners \ {<<c, c>>}
  /\ Finish(c, backend[c] = "landed")
  /\ UNCHANGED <<_pendingCopyListeners, watchers>>
  /\ UNCHANGED <<req, reviseVars, gateVars, deleteVars, linesVars>>

\* The 45 s timer of _saveDraftViaComposeWindow fires (1400-1401): the
\* observer is unregistered and finish(false, "timeout") runs. The send
\* listener stays in _pendingSendListeners.
ComposeSaveTimeout(c) ==
  /\ op[c] = "reply" /\ c \in timers
  /\ Finish(c, FALSE)
  /\ UNCHANGED <<op, tok, backend, drafts>>
  /\ UNCHANGED <<_pendingCopyListeners, _pendingSendListeners, watchers>>
  /\ UNCHANGED <<req, reviseVars, gateVars, deleteVars, linesVars>>

\* The window call c opened loads, and the load listener that the observer
\* of another call d put on it runs its runnable (1403-1471): the observer
\* takes every compose window for its own. SendMsg(nsMsgSaveAsDraft) is
\* issued on the window with a send listener of d, or no compose instance /
\* SendMsg is found and d's finish(false) runs.
ObserverRunsOnOtherWindow(d, c, usable) ==
  /\ op[c] = "reply" /\ d \in watchers[c]
  /\ watchers' = [watchers EXCEPT ![c] = @ \ {d}]
  /\ IF usable
     THEN /\ _pendingSendListeners' = _pendingSendListeners \cup {<<d, c>>}
          /\ UNCHANGED <<bg, resp, _pendingDraftMessageIds, observers, timers>>
     ELSE /\ Finish(d, FALSE)
          /\ UNCHANGED _pendingSendListeners
  /\ UNCHANGED <<op, tok, backend, drafts, _pendingCopyListeners>>
  /\ UNCHANGED <<req, reviseVars, gateVars, deleteVars, linesVars>>

\* The save call d issued on the window of call c stops and d's send
\* listener is told (1451-1457): finish of d. A successful save stores the
\* window's draft if it is not stored yet.
ForeignSaveStops(d, c, ok) ==
  /\ d # c /\ <<d, c>> \in _pendingSendListeners
  /\ _pendingSendListeners' = _pendingSendListeners \ {<<d, c>>}
  /\ drafts' = IF ok /\ ~BagIn(ComposeMessageId(c), drafts)
               THEN drafts (+) SetToBag({ComposeMessageId(c)})
               ELSE drafts
  /\ Finish(d, ok)
  /\ UNCHANGED <<op, tok, backend, _pendingCopyListeners, watchers>>
  /\ UNCHANGED <<req, reviseVars, gateVars, deleteVars, linesVars>>

\* useClosePromptSave path, synchronous part (2671-2892): checks, insertion,
\* observers registered, compose window requested, result returned. If
\* OpenComposeWindowWithParams raises, the catch at 2945 returns the error.
ReplyToMessageDraftClosePrompt(c, key, found, fault) ==
  /\ CanIssue(c)
  /\ op' = [op EXCEPT ![c] = "replyPrompt"]
  /\ UNCHANGED <<backend, drafts>>
  /\ IF ~found
     THEN /\ fault = "none"
          /\ resp' = [resp EXCEPT ![c] = Result("error", NoId)]
          /\ UNCHANGED <<tok, bg, _pendingDraftMessageIds>>
     ELSE LET draftMessageId == DraftMessageId(key) IN
          /\ tok' = [tok EXCEPT ![c] = draftMessageId]
          /\ IF ReplyAdmission(draftMessageId) # "admit"
             THEN /\ fault = "none"
                  /\ resp' = [resp EXCEPT ![c] = Result(ReplyAdmission(draftMessageId), draftMessageId)]
                  /\ UNCHANGED <<bg, _pendingDraftMessageIds>>
             ELSE /\ fault \in {"none", "open"}
                  /\ _pendingDraftMessageIds' = _pendingDraftMessageIds \cup {draftMessageId}
                  /\ IF fault = "open"
                     THEN /\ resp' = [resp EXCEPT ![c] = Result("error", NoId)]
                          /\ UNCHANGED bg
                     ELSE /\ resp' = [resp EXCEPT ![c] = Result("opened", draftMessageId)]
                          /\ bg' = [bg EXCEPT ![c] = "awaitWindow"]
  /\ UNCHANGED <<req, listenerVars, reviseVars, gateVars, deleteVars, linesVars>>

\* composeObserver.observe / tryRun (2787-2885): a window opens. If it is a
\* compose window the paste-and-close runnable is dispatched (didRun); if it
\* never turns out to be one, tryRun stops rescheduling after 60 attempts.
ClosePromptWindowOpened(c, isCompose) ==
  /\ op[c] = "replyPrompt" /\ bg[c] = "awaitWindow"
  /\ bg' = [bg EXCEPT ![c] = IF isCompose THEN "pasting" ELSE "gaveUp"]
  /\ UNCHANGED <<op, tok, resp, backend, _pendingDraftMessageIds, drafts>>
  /\ UNCHANGED <<req, listenerVars, reviseVars, gateVars, deleteVars, linesVars>>

\* poll.run and the 800 ms timer (2820-2865): paste, close the window, arm
\* the 25 s release timer. The prompt's Save may or may not start a save.
ClosePromptPasteAndClose(c, saves) ==
  /\ op[c] = "replyPrompt" /\ bg[c] = "pasting"
  /\ bg' = [bg EXCEPT ![c] = "releaseTimer"]
  /\ backend' = [backend EXCEPT ![c] = IF saves THEN "inflight" ELSE "none"]
  /\ UNCHANGED <<op, tok, resp, _pendingDraftMessageIds, drafts>>
  /\ UNCHANGED <<req, listenerVars, reviseVars, gateVars, deleteVars, linesVars>>

\* The 25 s timer (2861-2864) removes the id, whatever the save did.
ClosePromptRelease(c) ==
  /\ op[c] = "replyPrompt" /\ bg[c] = "releaseTimer"
  /\ bg' = [bg EXCEPT ![c] = "done"]
  /\ _pendingDraftMessageIds' = _pendingDraftMessageIds \ {tok[c]}
  /\ UNCHANGED <<op, tok, resp, backend, drafts>>
  /\ UNCHANGED <<req, listenerVars, reviseVars, gateVars, deleteVars, linesVars>>

\* ------------------------------------------------------------------------
\* Part II: reviseDraftInPlaceNativeEditor (api.js 1999-2393)
\* ------------------------------------------------------------------------
\* A message body is the set of text lines that occur in it (what
\* String.prototype.includes can find); a payload is a sequence of lines.

\* Time is counted in seconds. Date.now() when detection starts (2265).
StartedAt == 1000
\* cutoff = startedAtMs - 10 * 60 * 1000 (2273), in seconds.
CutoffWindow == 600

\* Page size of messages.list / continueList (a backend setting).
PageSize == 3
\* Size of the large folder: more than 8 pages, and more than 18 messages
\* older than its 15 newest.
BigFolderSize == 8 * PageSize + 16

\* Line lengths (String.length) of the trimmed lines used in the model.
\* Twenty-two distinct lines without a token marker and twenty-one with
\* one, for payloads longer than the cap of _linesFromText.
FillerLines ==
  <<"Line 01", "Line 02", "Line 03", "Line 04", "Line 05", "Line 06", "Line 07",
    "Line 08", "Line 09", "Line 10", "Line 11", "Line 12", "Line 13", "Line 14",
    "Line 15", "Line 16", "Line 17", "Line 18", "Line 19", "Line 20", "Line 21",
    "Line 22">>
ManyTokenLines ==
  <<"TOK01", "TOK02", "TOK03", "TOK04", "TOK05", "TOK06", "TOK07", "TOK08",
    "TOK09", "TOK10", "TOK11", "TOK12", "TOK13", "TOK14", "TOK15", "TOK16",
    "TOK17", "TOK18", "TOK19", "TOK20", "TOK21">>
FillerSet == {FillerLines[i] : i \in DOMAIN FillerLines}
ManyTokenSet == {ManyTokenLines[i] : i \in DOMAIN ManyTokenLines}

LineLength ==
  [l \in {"Hi Becky,", "TOK2-7", "Best,", "Jiachang", "New body line 1",
          "New body line 2", "Old body line 1", "Hi", "filler text", "> quoted original",
          "TOK1", "TOK", "tok1", "MYTOK1"} \cup FillerSet \cup ManyTokenSet |->
     CASE l = "Hi Becky," -> 9
       [] l = "TOK1" -> 4
       [] l = "TOK" -> 3
       [] l = "tok1" -> 4
       [] l = "MYTOK1" -> 6
       [] l \in FillerSet -> 7
       [] l \in ManyTokenSet -> 5
       [] l = "TOK2-7" -> 6
       [] l = "Best," -> 5
       [] l = "Jiachang" -> 8
       [] l = "New body line 1" -> 15
       [] l = "New body line 2" -> 15
       [] l = "Old body line 1" -> 15
       [] l = "Hi" -> 2
       [] l = "filler text" -> 11
       [] l = "> quoted original" -> 17]

\* /\bTOK\d?\b|\bTOK[0-9-]/.test(x) (2152, 2171)
IsTokenLine(l) == l \in {"TOK2-7", "TOK1", "TOK"} \cup ManyTokenSet

\* String.prototype.trim on a raw line; the raw lines of the model carry no
\* surrounding white space except the ones listed.
TrimLine(l) == IF l = "  Best,  " THEN "Best," ELSE IF l = "   " THEN "" ELSE l

RECURSIVE SeqFilterMapTrim(_)
SeqFilterMapTrim(t) ==
  IF t = <<>> THEN <<>>
  ELSE (IF TrimLine(Head(t)) = "" THEN <<>> ELSE <<TrimLine(Head(t))>>) \o SeqFilterMapTrim(Tail(t))

\* A filter that lets no line through.
SelectNoLines(s) == <<>>

\* lines.filter(x => token regex) (2152)
RECURSIVE SelectTokenLines(_)
SelectTokenLines(s) ==
  IF s = <<>> THEN <<>>
  ELSE (IF IsTokenLine(Head(s)) THEN <<Head(s)>> ELSE <<>>) \o SelectTokenLines(Tail(s))

\* lines.filter(x => x.length >= 5) (2155)
MinNormalLength == 5
RECURSIVE SelectLongLines(_)
SelectLongLines(s) ==
  IF s = <<>> THEN <<>>
  ELSE (IF LineLength[Head(s)] >= MinNormalLength THEN <<Head(s)>> ELSE <<>>) \o SelectLongLines(Tail(s))

SeqTake(s, n) == SubSeq(s, 1, IF Len(s) < n THEN Len(s) ELSE n)

SeqRange(s) == {s[i] : i \in DOMAIN s}

\* slice(0, 20) and the merged.length >= 20 break of _linesFromText
MaxWantLines == 20

\* merged: tok.concat(normal) without duplicates, at most 20 (2158-2162)
RECURSIVE MergeLines(_, _)
MergeLines(rest, merged) ==
  IF rest = <<>> \/ Len(merged) >= MaxWantLines THEN merged
  ELSE MergeLines(Tail(rest),
                  IF Head(rest) \in SeqRange(merged) THEN merged ELSE Append(merged, Head(rest)))

\* _linesFromText (2144-2167); t is the payload as its sequence of raw lines.
_linesFromText(t) ==
  LET lines == SeqFilterMapTrim(t)
      tokl == SelectTokenLines(lines)
      normal == SeqTake(SelectLongLines(lines), MaxWantLines)
  IN  MergeLines(tokl \o normal, <<>>)

\* Payloads (plainTextBody) the callers submit.
PayloadTok == <<"Hi Becky,", "", "TOK2-7", "", "Best,", "Jiachang">>
PayloadPlain == <<"New body line 1", "New body line 2", "", "  Best,  ", "Jiachang">>
\* A payload of one line that carries no token marker.
PayloadSingle == <<"New body line 1">>
Payloads == {PayloadTok, PayloadPlain, PayloadSingle}

\* The lines a saved body shows for a payload.
PayloadLines(t) == SeqRange(SeqFilterMapTrim(t))

\* Lines of an existing body that belong to the quoted original.
QuoteLines == {"> quoted original"}

Msg(id, subject, date, body) == [id |-> id, subject |-> subject, date |-> date, body |-> body]

DraftSubject == "Re: Follow up"
OrigId == "orig"
NewId == "new"
OrigBody == {"Old body line 1", "Best,", "Jiachang", "> quoted original"}
OrigMsg == Msg(OrigId, DraftSubject, StartedAt - 60, OrigBody)
\* An unrelated draft of the same thread that already holds the closing lines.
OtherMsg == Msg("other", DraftSubject, StartedAt - 120, {"filler text", "Best,", "Jiachang"})
\* An unrelated draft older than the cutoff, with another subject.
StaleMsg == Msg("stale", "Other subject", StartedAt - CutoffWindow - 100, {"filler text"})
FillerMsg(i) == Msg("filler" \o ToString(i), DraftSubject, StartedAt - 500 + i, {"filler text"})

SmallFolder == <<OrigMsg>>
MixedFolder == <<StaleMsg, OtherMsg, OrigMsg>>
BigFolder == [i \in 1..BigFolderSize |-> IF i = BigFolderSize THEN OrigMsg ELSE FillerMsg(i)]
InitialFolders == {SmallFolder, MixedFolder, BigFolder}

FolderIds(f) == {f[i].id : i \in DOMAIN f}
RECURSIVE FolderWithout(_, _)
FolderWithout(f, id) ==
  IF f = <<>> THEN <<>>
  ELSE IF Head(f).id = id THEN Tail(f) ELSE <<Head(f)>> \o FolderWithout(Tail(f), id)
MsgById(f, id) == f[CHOOSE i \in DOMAIN f : f[i].id = id /\ \A j \in DOMAIN f : f[j].id = id => i <= j]

\* ------------------------------------------------------------------------
\* Folder reads used by the detector
\* ------------------------------------------------------------------------
\* top.push(hdr) / top[top.length - 1] = hdr followed by the stable
\* top.sort((a, b) => b.date - a.date) (3320-3321, 3326-3327): the header
\* goes behind every kept header whose date is not smaller.
InsertByDate(top, h) ==
  LET k == Cardinality({i \in DOMAIN top : top[i].date >= h.date})
  IN  SubSeq(top, 1, k) \o <<h>> \o SubSeq(top, k + 1, Len(top))

\* The enumeration loop of listLatestMessages (3316-3330).
RECURSIVE KeepNewest(_, _, _)
KeepNewest(rest, top, max) ==
  IF rest = <<>> THEN top
  ELSE LET hdr == Head(rest) IN
       IF Len(top) < max
       THEN KeepNewest(Tail(rest), InsertByDate(top, hdr), max)
       ELSE IF hdr.date > top[Len(top)].date
       THEN KeepNewest(Tail(rest), InsertByDate(SubSeq(top, 1, Len(top) - 1), hdr), max)
       ELSE KeepNewest(Tail(rest), top, max)

\* Math.min(Math.max(parseInt(limit || 20, 10) || 20, 1), 100) (3312)
DefaultLimit == 20
MaxLimit == 100
ClampLimit(limit) ==
  LET n == IF limit = 0 THEN DefaultLimit ELSE limit
  IN  IF n < 1 THEN 1 ELSE IF n > MaxLimit THEN MaxLimit ELSE n

\* listLatestMessages(folderPath, limit).items (3300-3350)
listLatestMessages(f, limit) == KeepNewest(f, <<>>, ClampLimit(limit))

\* What awaiting getRawMessage(id, folderPath) resolves to: the source of
\* the first header with that Message-ID (3464-3526).
getRawMessage(f, id) == MsgById(f, id).body

\* Program constants of the detector.
SnapshotLimit == 15
MaxAfterSavePolls == 40
MaxAttempts == 12
MaxPages == 8
FallbackLimit == 40
ScanSlice == 25
MaxFetch == 18

NumPages(f) == IF Len(f) = 0 THEN 1 ELSE (Len(f) + PageSize - 1) \div PageSize

\* The page loop (2278-2292): list, then while (chunk && pages++ < 8) the
\* chunk's messages are filtered and, if the chunk has an id, the next page
\* is requested. pagesRead: pages whose messages were examined; listCalls:
\* list + continueList requests issued.
PagedListing(f, wantSubj, cutoff) ==
  LET n == NumPages(f)
      pagesRead == IF n < MaxPages THEN n ELSE MaxPages
      seen == SeqTake(f, pagesRead * PageSize)
      keep == {i \in DOMAIN seen :
                 /\ (wantSubj = "" \/ seen[i].subject = wantSubj)
                 /\ ~(seen[i].date < cutoff)}
      Pick[i \in 0..Len(seen)] ==
        IF i = 0 THEN <<>>
        ELSE IF i \in keep THEN Append(Pick[i - 1], seen[i]) ELSE Pick[i - 1]
  IN  [candidates |-> Pick[Len(seen)],
       pagesRead |-> pagesRead,
       listCalls |-> IF n <= MaxPages THEN n ELSE MaxPages + 1]

\* The value the scoring loop reads as the candidate's body (2325-2327):
\* getRawMessage returns a promise and is not awaited there, so .source is
\* undefined and body is the empty string, which contains no line.
ScannedBodyAwaited(f, id) == getRawMessage(f, id)
ScannedBody(f, id) == {}

\* score: number of wantLines found in the body (2328-2331)
Score(body, wantLines) == Cardinality({i \in DOMAIN wantLines : wantLines[i] \in body})

\* threshold (2335)
ThresholdNoFloor(wantHasToken) == 0
Threshold(wantHasToken) == IF wantHasToken THEN 1 ELSE 2

\* if (fetched++ >= maxFetch) break (2323)
FetchAllowedNoCap(fetched) == TRUE
FetchAllowed(fetched) == fetched < MaxFetch

\* The scoring loop over scanList (2318-2343). Returns best (or NoBest),
\* the entries pushed to debugDetect.checked and the number of raw fetches.
NoBest == [id |-> "", score |-> 0, isNew |-> FALSE]
RECURSIVE ScoreLoop(_, _, _, _, _, _, _)
ScoreLoop(scanList, fetched, checked, f, wantLines, wantHasToken, ctx) ==
  IF scanList = <<>> \/ ~FetchAllowed(fetched)
  THEN [best |-> NoBest, checked |-> checked, fetched |-> fetched]
  ELSE LET c == Head(scanList)
           score == Score(ScannedBody(f, c.id), wantLines)
           isNew == c.id \notin ctx.beforeSet
           entry == [id |-> c.id, isOld |-> (c.id = ctx.messageId), score |-> score, isNew |-> isNew]
       IN  IF score >= Threshold(wantHasToken)
           THEN [best |-> [id |-> c.id, score |-> score, isNew |-> isNew],
                 checked |-> Append(checked, entry), fetched |-> fetched + 1]
           ELSE ScoreLoop(Tail(scanList), fetched + 1, Append(checked, entry),
                          f, wantLines, wantHasToken, ctx)

RECURSIVE SelectNew(_, _)
SelectNew(cands, beforeSet) ==
  IF cands = <<>> THEN <<>>
  ELSE (IF Head(cands).id \notin beforeSet THEN <<Head(cands)>> ELSE <<>>) \o SelectNew(Tail(cands), beforeSet)

\* One attempt of the scan (the body of the for loop, 2271-2351).
ScanOnce(f, wantSubj, before, wantLines, wantHasToken, messageId, checked) ==
  LET cutoff == StartedAt - CutoffWindow
      listing == PagedListing(f, wantSubj, cutoff)
      candidates == IF listing.candidates = <<>>
                    THEN listLatestMessages(f, FallbackLimit)
                    ELSE listing.candidates
      beforeSet == SeqRange(before)
      newOnes == SelectNew(candidates, beforeSet)
      scanList == SeqTake(IF newOnes # <<>> THEN newOnes ELSE candidates, ScanSlice)
      scored == ScoreLoop(scanList, 0, checked, f, wantLines, wantHasToken,
                          [beforeSet |-> beforeSet, messageId |-> messageId])
  IN  [best |-> scored.best, checked |-> scored.checked, fetched |-> scored.fetched,
       pagesRead |-> listing.pagesRead, listCalls |-> listing.listCalls,
       candidateCount |-> Len(candidates)]

\* ------------------------------------------------------------------------
\* State of one reviseDraftInPlaceNativeEditor call and of its backend
\* ------------------------------------------------------------------------
NoPick == [id |-> "", via |-> "none"]
NoSaveRes == [kind |-> "unset", id |-> ""]

NoDetails == [existingBody |-> <<>>, plainTextBody |-> <<>>,
              preserveQuotedOriginal |-> TRUE, body |-> <<>>, via |-> "none"]

InitLoc ==
  [replaced |-> FALSE, composeBody |-> {}, wantLines |-> <<>>, wantHasToken |-> FALSE,
   wantSubj |-> "", before |-> <<>>, listener |-> "none", saveRes |-> NoSaveRes,
   afterSaveErr |-> FALSE, afterSaveInfo |-> FALSE, polls |-> 0,
   pollBudgetSpent |-> FALSE, attempts |-> 0,
   pagesRead |-> 0, listCalls |-> 0, fetched |-> 0, checked |-> <<>>,
   picked |-> NoPick, errors |-> <<>>, newMessageId |-> "",
   deleteAttempted |-> FALSE, deletedOld |-> FALSE]

NoArgs == [messageId |-> "", plainTextBody |-> <<>>, preserveQuotedOriginal |-> TRUE,
           closeAfterSave |-> TRUE]
NoJob == [state |-> "none", mode |-> "none", body |-> {}]
NoResult == [kind |-> "none"]

InitReviseWith(f) ==
  /\ rpc = "idle"
  /\ args = NoArgs
  /\ loc = InitLoc
  /\ draftsFolder = f
  /\ saveJob = NoJob
  /\ tab = "none"
  /\ result = NoResult
  /\ peer = "none"
  /\ details = NoDetails

ReturnError(why) ==
  /\ rpc' = "returned"
  /\ result' = [kind |-> "error", error |-> why]

\* 2003-2062: the call starts; the draft is looked up by headerMessageId.
reviseDraftInPlaceNativeEditor(messageId, plainTextBody, preserveQuotedOriginal, closeAfterSave) ==
  /\ rpc = "idle"
  /\ args' = [messageId |-> messageId, plainTextBody |-> plainTextBody,
              preserveQuotedOriginal |-> preserveQuotedOriginal,
              closeAfterSave |-> closeAfterSave]
  /\ IF messageId \in FolderIds(draftsFolder)
     THEN rpc' = "beginNew" /\ UNCHANGED result
     ELSE ReturnError("Draft not found in folder by headerMessageId")
  /\ UNCHANGED <<loc, draftsFolder, saveJob, tab>>
  /\ UNCHANGED <<draftVars, peer, details>>

\* The call made on its own.
ReviseStart(messageId, plainTextBody, preserveQuotedOriginal, closeAfterSave) ==
  /\ reviseDraftInPlaceNativeEditor(messageId, plainTextBody, preserveQuotedOriginal,
                                    closeAfterSave)
  /\ UNCHANGED <<gateVars, deleteVars, linesVars>>

\* 2067-2069: compose.beginNew raced against 15 s.
BeginNew(opened) ==
  /\ rpc = "beginNew"
  /\ IF opened
     THEN /\ tab' = "open"
          /\ loc' = [loc EXCEPT !.composeBody = getRawMessage(draftsFolder, args.messageId),
                                !.wantSubj = MsgById(draftsFolder, args.messageId).subject]
          /\ rpc' = "locate"
          /\ UNCHANGED result
     ELSE /\ ReturnError("compose.beginNew failed or timed out")
          /\ UNCHANGED <<tab, loc>>
  /\ UNCHANGED <<args, draftsFolder, saveJob>>
  /\ UNCHANGED <<draftVars, peer, details, gateVars, deleteVars, linesVars>>

\* 2076-2102: the compose window is looked for (2 x 60 tries).
LocateEditor(found) ==
  /\ rpc = "locate"
  /\ IF found
     THEN rpc' = "edit" /\ UNCHANGED result
     ELSE ReturnError("Timeout locating compose editor for draft")
  /\ UNCHANGED <<args, loc, draftsFolder, saveJob, tab>>
  /\ UNCHANGED <<draftVars, peer, details, gateVars, deleteVars, linesVars>>

\* The body the call submits: the new lines, followed by the quoted part of
\* the existing body when preserveQuotedOriginal is set (2108-2130).
NewComposeBody(existingBody, plainTextBody, preserveQuotedOriginal) ==
  PayloadLines(plainTextBody) \cup
    (IF preserveQuotedOriginal THEN existingBody \cap QuoteLines ELSE {})

\* 2106-2142: setComposeDetails, or the editor fallback when it raises; the
\* fallback may report that it replaced nothing.
EditBody(how) ==
  /\ rpc = "edit"
  /\ loc' = [loc EXCEPT
       !.replaced = (how # "fallbackFailed"),
       !.composeBody = IF how = "fallbackFailed" THEN @
                       ELSE NewComposeBody(@, args.plainTextBody, args.preserveQuotedOriginal)]
  /\ rpc' = "snapshot"
  /\ UNCHANGED <<args, draftsFolder, saveJob, tab, result>>
  /\ UNCHANGED <<draftVars, peer, details, gateVars, deleteVars, linesVars>>

\* 2169-2208: wantLines, the snapshot of the 15 newest, the onAfterSave
\* listener and the saveMessage request.
SnapshotAndSave ==
  /\ rpc = "snapshot"
  /\ LET wantLines == _linesFromText(args.plainTextBody)
         b == listLatestMessages(draftsFolder, SnapshotLimit)
     IN  loc' = [loc EXCEPT
           !.wantLines = wantLines,
           !.wantHasToken = (\E i \in DOMAIN wantLines : IsTokenLine(wantLines[i])),
           !.before = [i \in DOMAIN b |-> b[i].id],
           !.listener = "subscribed"]
  /\ saveJob' = [state |-> "inflight", mode |-> "none", body |-> loc.composeBody]
  /\ rpc' = "awaitSave"
  /\ UNCHANGED <<args, draftsFolder, tab, result>>
  /\ UNCHANGED <<draftVars, peer, details, gateVars, deleteVars, linesVars>>

\* The backend stores the saved draft: under the original Message-ID, or as a
\* new message with a new Message-ID that leaves the original untouched.
SaveLands(mode) ==
  /\ saveJob.state = "inflight"
  /\ saveJob' = [saveJob EXCEPT !.state = "landed", !.mode = mode]
  /\ draftsFolder' =
       IF mode = "inplace"
       THEN Append(FolderWithout(draftsFolder, args.messageId),
                   Msg(args.messageId, loc.wantSubj, StartedAt, saveJob.body))
       ELSE Append(draftsFolder, Msg(NewId, loc.wantSubj, StartedAt, saveJob.body))
  /\ UNCHANGED <<rpc, args, loc, tab, result>>
  /\ UNCHANGED <<draftVars, peer, details, gateVars, deleteVars, linesVars>>

SaveFails ==
  /\ saveJob.state = "inflight"
  /\ saveJob' = [saveJob EXCEPT !.state = "failed"]
  /\ UNCHANGED <<rpc, args, loc, draftsFolder, tab, result>>
  /\ UNCHANGED <<draftVars, peer, details, gateVars, deleteVars, linesVars>>

SavedId == IF saveJob.mode = "inplace" THEN args.messageId ELSE NewId

\* 2208: the await on saveMessage raced against 30 s ends.
SaveReturns(kind) ==
  /\ rpc = "awaitSave"
  /\ \/ /\ kind = "messages" /\ saveJob.state = "landed"
        /\ loc' = [loc EXCEPT !.saveRes = [kind |-> "messages", id |-> SavedId]]
     \/ /\ kind = "noMessages" /\ saveJob.state \in {"inflight", "landed"}
        /\ loc' = [loc EXCEPT !.saveRes = [kind |-> "noMessages", id |-> ""]]
     \/ /\ kind = "threw" /\ saveJob.state = "failed"
        /\ loc' = [loc EXCEPT !.afterSaveErr = TRUE]
     \/ /\ kind = "timeout" /\ saveJob.state = "inflight"
        /\ loc' = [loc EXCEPT !.afterSaveErr = TRUE]
  /\ rpc' = "pollAfterSave"
  /\ UNCHANGED <<args, draftsFolder, saveJob, tab, result>>
  /\ UNCHANGED <<draftVars, peer, details, gateVars, deleteVars, linesVars>>

\* The compose tab of the call (tabId) and the one of a second call.
ThisTab == "tab"
PeerTab == "peerTab"

\* The handler the call registers on compose.onAfterSave (2187-2195): the
\* value of afterSaveInfo after a notification for savedTab.
AfterSaveHandlerAnyTab(savedTab, tabId, afterSaveInfo) == TRUE
AfterSaveHandler(savedTab, tabId, afterSaveInfo) ==
  IF savedTab # tabId THEN afterSaveInfo ELSE TRUE

\* compose.onAfterSave fires for this tab.
AfterSaveEvent ==
  /\ loc.listener = "subscribed"
  /\ saveJob.state = "landed"
  /\ ~loc.afterSaveInfo
  /\ loc' = [loc EXCEPT !.afterSaveInfo = AfterSaveHandler(ThisTab, ThisTab, @)]
  /\ UNCHANGED <<rpc, args, draftsFolder, saveJob, tab, result>>
  /\ UNCHANGED <<draftVars, peer, details, gateVars, deleteVars, linesVars>>

\* 2211-2224: one turn of the polling loop, or its end (listener removed,
\* 1 s sleep, updateFolder). The loop counter goes out of scope there;
\* pollBudgetSpent records whether the loop ended by exhausting it.
PollAfterSaveMore(polls, afterSaveInfo) == polls < MaxAfterSavePolls /\ ~afterSaveInfo
PollAfterSave ==
  /\ rpc = "pollAfterSave"
  /\ IF PollAfterSaveMore(loc.polls, loc.afterSaveInfo)
     THEN loc' = [loc EXCEPT !.polls = @ + 1] /\ UNCHANGED rpc
     ELSE /\ loc' = [loc EXCEPT !.listener = "removed", !.polls = 0,
                                  !.pollBudgetSpent = (loc.polls = MaxAfterSavePolls)]
          /\ rpc' = "detect"
  /\ UNCHANGED <<args, draftsFolder, saveJob, tab, result>>
  /\ UNCHANGED <<draftVars, peer, details, gateVars, deleteVars, linesVars>>

\* 2228-2260: newMessageId starts as the original id; the id returned by
\* saveMessage, if any, is taken and the scan is skipped.
FastPathIdIgnored(saveRes) == ""
FastPathId(saveRes) == IF saveRes.kind = "messages" THEN saveRes.id ELSE ""
DetectFastPath ==
  /\ rpc = "detect"
  /\ LET hid == FastPathId(loc.saveRes) IN
       IF hid # ""
       THEN /\ loc' = [loc EXCEPT !.newMessageId = hid,
                                  !.picked = [id |-> hid, via |-> "compose.saveMessage"]]
            /\ rpc' = "reconcile"
       ELSE /\ loc' = [loc EXCEPT !.newMessageId = args.messageId]
            /\ rpc' = "scan"
  /\ UNCHANGED <<args, draftsFolder, saveJob, tab, result>>
  /\ UNCHANGED <<draftVars, peer, details, gateVars, deleteVars, linesVars>>

\* 2270-2352: one scan attempt and the 1.2 s sleep after it.
MoreAttempts(attempts) == attempts < MaxAttempts
ScanAttempt ==
  /\ rpc = "scan"
  /\ LET r == ScanOnce(draftsFolder, loc.wantSubj, loc.before, loc.wantLines,
                       loc.wantHasToken, args.messageId, loc.checked)
         found == r.best.id # ""
     IN  /\ loc' = [loc EXCEPT
               !.attempts = @ + 1,
               !.pagesRead = r.pagesRead,
               !.listCalls = r.listCalls,
               !.fetched = r.fetched,
               !.checked = r.checked,
               !.newMessageId = IF found THEN r.best.id ELSE @,
               !.picked = IF found THEN [id |-> r.best.id, via |-> "scan"] ELSE @]
         /\ rpc' = IF found \/ ~MoreAttempts(loc.attempts + 1) THEN "reconcile" ELSE "scan"
  /\ UNCHANGED <<args, draftsFolder, saveJob, tab, result>>
  /\ UNCHANGED <<draftVars, peer, details, gateVars, deleteVars, linesVars>>

ShouldDeleteOldNever(newMessageId, messageId) == FALSE
ShouldDeleteOldAlways(newMessageId, messageId) == TRUE
\* 2358-2374: best-effort deletion of the original when another id was
\* resolved. folder.deleteMessages may raise; the catch swallows it.
ShouldDeleteOld(newMessageId, messageId) == newMessageId # "" /\ newMessageId # messageId
Reconcile(deleteRaises) ==
  /\ rpc = "reconcile"
  /\ IF ShouldDeleteOld(loc.newMessageId, args.messageId) /\ args.messageId \in FolderIds(draftsFolder)
     THEN IF deleteRaises
          THEN /\ loc' = [loc EXCEPT !.deleteAttempted = TRUE]
               /\ UNCHANGED draftsFolder
          ELSE /\ draftsFolder' = FolderWithout(draftsFolder, args.messageId)
               /\ loc' = [loc EXCEPT !.deleteAttempted = TRUE, !.deletedOld = TRUE]
     ELSE /\ ~deleteRaises
          /\ UNCHANGED <<loc, draftsFolder>>
  /\ rpc' = "close"
  /\ UNCHANGED <<args, saveJob, tab, result>>
  /\ UNCHANGED <<draftVars, peer, details, gateVars, deleteVars, linesVars>>

\* 2376-2389: the tab is closed if asked (a failure is swallowed) and the
\* result is returned.
CloseAndReturn(closed) ==
  /\ rpc = "close"
  /\ closed => args.closeAfterSave
  /\ tab' = IF closed THEN "closed" ELSE tab
  /\ result' = [kind |-> "ok", replaced |-> loc.replaced, oldMessageId |-> args.messageId,
                messageId |-> loc.newMessageId, deletedOld |-> loc.deletedOld,
                picked |-> loc.picked, checked |-> loc.checked, errors |-> loc.errors,
                attempts |-> loc.attempts]
  /\ rpc' = "returned"
  /\ UNCHANGED <<args, loc, draftsFolder, saveJob>>
  /\ UNCHANGED <<draftVars, peer, details, gateVars, deleteVars, linesVars>>

\* The awaits of the call that are not wrapped in _withTimeout (1953-1961):
\* when the backend call behind one of them never completes, the call stays
\* suspended there and returns nothing.
\* 2036, 2050, 2059, 2061: accounts.list, messages.list, continueList and
\* abortList of the lookup of the draft.
LookupBlocks(messageId, plainTextBody, preserveQuotedOriginal, closeAfterSave) ==
  /\ rpc = "idle"
  /\ args' = [messageId |-> messageId, plainTextBody |-> plainTextBody,
              preserveQuotedOriginal |-> preserveQuotedOriginal,
              closeAfterSave |-> closeAfterSave]
  /\ rpc' = "blockedInLookup"
  /\ UNCHANGED <<loc, draftsFolder, saveJob, tab, result>>
  /\ UNCHANGED <<draftVars, peer, details>>

ReviseStartBlocks(messageId, plainTextBody, preserveQuotedOriginal, closeAfterSave) ==
  /\ LookupBlocks(messageId, plainTextBody, preserveQuotedOriginal, closeAfterSave)
  /\ UNCHANGED <<gateVars, deleteVars, linesVars>>

\* 2296: abortList in the finally of a scan attempt; it is called when the
\* first chunk carried a list id, which is when the listing has more pages.
ScanAttemptBlocks ==
  /\ rpc = "scan"
  /\ NumPages(draftsFolder) > 1
  /\ loc' = [loc EXCEPT !.attempts = @ + 1]
  /\ rpc' = "blockedInAbortList"
  /\ UNCHANGED <<args, draftsFolder, saveJob, tab, result>>
  /\ UNCHANGED <<draftVars, peer, details, gateVars, deleteVars, linesVars>>

\* 2379: tabs.remove, awaited when closeAfterSave is set.
CloseBlocks ==
  /\ rpc = "close"
  /\ args.closeAfterSave
  /\ rpc' = "blockedInTabsRemove"
  /\ UNCHANGED <<args, loc, draftsFolder, saveJob, tab, result>>
  /\ UNCHANGED <<draftVars, peer, details, gateVars, deleteVars, linesVars>>

\* ------------------------------------------------------------------------
\* A second reviseDraftInPlaceNativeEditor call for the same draft with the
\* same new content, issued while the first one is in progress. Its steps
\* are those of the first call, taken at the grain of its backend mutations.
\* ------------------------------------------------------------------------
InProgress == rpc \in {"beginNew", "locate", "edit", "snapshot", "awaitSave",
                       "pollAfterSave", "detect", "scan", "reconcile", "close"}
PeerNewId == "new-peer"

\* 1999-2069: the function reads neither _pendingDraftMessageIds nor any
\* other record of calls in progress; the draft is looked up in the folder
\* and, when found, opened for editing.
PeerStart ==
  /\ InProgress
  /\ peer = "none"
  /\ peer' = IF args.messageId \in FolderIds(draftsFolder) THEN "opened" ELSE "returned"
  /\ UNCHANGED <<rpc, args, loc, draftsFolder, saveJob, tab, result>>
  /\ UNCHANGED <<draftVars, details, gateVars, deleteVars, linesVars>>

\* 2106-2208 and the backend save for the second call: the body is set and
\* the draft is saved, in place or as a new message. compose.onAfterSave
\* fires for the second call's tab and reaches the first call's handler
\* while that is subscribed.
PeerSaveLands(mode) ==
  /\ peer = "opened"
  /\ peer' = "saved"
  /\ LET existing == IF args.messageId \in FolderIds(draftsFolder)
                      THEN getRawMessage(draftsFolder, args.messageId) ELSE {}
         body == NewComposeBody(existing, args.plainTextBody, args.preserveQuotedOriginal)
     IN  draftsFolder' =
           IF mode = "inplace"
           THEN Append(FolderWithout(draftsFolder, args.messageId),
                       Msg(args.messageId, DraftSubject, StartedAt, body))
           ELSE Append(draftsFolder, Msg(PeerNewId, DraftSubject, StartedAt, body))
  /\ loc' = IF loc.listener = "subscribed"
            THEN [loc EXCEPT !.afterSaveInfo = AfterSaveHandler(PeerTab, ThisTab, @)]
            ELSE loc
  /\ UNCHANGED <<rpc, args, saveJob, tab, result>>
  /\ UNCHANGED <<draftVars, details, gateVars, deleteVars, linesVars>>

\* 2389: the second call returns.
PeerReturns ==
  /\ peer = "saved"
  /\ peer' = "returned"
  /\ UNCHANGED <<rpc, args, loc, draftsFolder, saveJob, tab, result>>
  /\ UNCHANGED <<draftVars, details, gateVars, deleteVars, linesVars>>

\* ------------------------------------------------------------------------
\* The body edit at the level of markup (api.js 2106-2142, 1817-1927)
\* ------------------------------------------------------------------------
\* Markup is a sequence of pieces; a piece is a tag, a run of text of the
\* existing body, or one character of the new text. Offsets are those of
\* JavaScript: the first piece is at 0 and -1 means "not found".
Txt == "old reply text"
CitePrefix == "<div class=\"moz-cite-prefix\">"
CiteQuote == "<blockquote type=\"cite\">"
PlainQuote == "<blockquote>"
OtherDiv == "<div class=\"moz-signature\">"
BodyPieces == {Txt, CitePrefix, CiteQuote, PlainQuote, OtherDiv}

\* Bounds: pieces of an existing body, characters of a new text.
MaxBodyLen == 3
MaxTextLen == 2

ExistingBodies == UNION {[1..n -> BodyPieces] : n \in 0..MaxBodyLen}
TextChars == {"a", "<", "\n"}
PlainTexts == UNION {[1..n -> TextChars] : n \in 0..MaxTextLen}

\* Offset of the first piece of s, from position i on, that is in `pieces`.
RECURSIVE FirstIn(_, _, _)
FirstIn(s, pieces, i) ==
  IF i > Len(s) THEN -1
  ELSE IF s[i] \in pieces THEN i - 1
  ELSE FirstIn(s, pieces, i + 1)

\* existingBody.indexOf('<div class="moz-cite-prefix"') (2124)
IndexOfCitePrefix(existingBody) == FirstIn(existingBody, {CitePrefix}, 1)
\* existingBody.search(/<blockquote[^>]*(type="cite"|...|cite=)/i) (2125)
SearchCiteBlockquote(existingBody) == FirstIn(existingBody, {CiteQuote}, 1)
\* existingBody.search(/<blockquote/i) (2126)
SearchBlockquote(existingBody) == FirstIn(existingBody, {CiteQuote, PlainQuote}, 1)

QuoteIndexFirstBlockquote(existingBody) == SearchBlockquote(existingBody)
\* 2123-2126: idx
QuoteIndex(existingBody) ==
  LET a == IndexOfCitePrefix(existingBody)
      b == SearchCiteBlockquote(existingBody)
  IN  IF a >= 0 THEN a ELSE IF b >= 0 THEN b ELSE SearchBlockquote(existingBody)

\* String.prototype.slice(idx)
Slice(s, idx) == SubSeq(s, idx + 1, Len(s))

\* escHtml (2112-2118) on one character.
escHtml(ch) ==
  CASE ch = "&" -> "&amp;"
    [] ch = "<" -> "&lt;"
    [] ch = ">" -> "&gt;"
    [] ch = "\"" -> "&quot;"
    [] OTHER -> ch

\* .split(/\r?\n/): the lines of a text; `cur` is the line being read.
StripCR(l) == IF l # <<>> /\ l[Len(l)] = "\r" THEN SubSeq(l, 1, Len(l) - 1) ELSE l
RECURSIVE SplitLines(_, _)
SplitLines(t, cur) ==
  IF t = <<>> THEN <<cur>>
  ELSE IF Head(t) = "\n" THEN <<StripCR(cur)>> \o SplitLines(Tail(t), <<>>)
  ELSE SplitLines(Tail(t), Append(cur, Head(t)))

EscLine(l) == [i \in 1..Len(l) |-> escHtml(l[i])]

\* lines.join("<br>\n")
RECURSIVE JoinBr(_)
JoinBr(lines) ==
  IF lines = <<>> THEN <<>>
  ELSE IF Len(lines) = 1 THEN Head(lines)
  ELSE Head(lines) \o <<"<br>\n">> \o JoinBr(Tail(lines))

\* 2119-2120: topHtml
TopHtml(plainTextBody) ==
  LET split == SplitLines(plainTextBody, <<>>)
      lines == [i \in 1..Len(split) |-> EscLine(split[i])]
  IN  <<"<p>">> \o JoinBr(lines) \o <<"</p>\n<br>\n<br>\n">>

NewBodyKeepsAll(existingBody, plainTextBody) == TopHtml(plainTextBody) \o existingBody
\* 2128-2129: remainder and newBody, the body handed to setComposeDetails.
NewBody(existingBody, plainTextBody) ==
  LET idx == QuoteIndex(existingBody)
      remainder == IF idx >= 0 THEN Slice(existingBody, idx) ELSE <<>>
  IN  IF remainder # <<>> THEN TopHtml(plainTextBody) \o remainder
      ELSE TopHtml(plainTextBody)

\* editor.insertText(t) as the markup it leaves: a newline becomes a line
\* break and the characters are serialized as text.
EditorText(t) ==
  [i \in 1..Len(t) |-> IF t[i] = "\n" THEN "<br>"
                       ELSE IF t[i] \in {"&", "<", ">"} THEN escHtml(t[i]) ELSE t[i]]

\* 1817-1853: select all, delete, insertText(t + "\n").
_replaceBodyWithPlainText(body, text) == EditorText(text \o <<"\n">>)

\* 1855-1927: the first blockquote of the document is looked for; what
\* precedes it is deleted and t + "\n\n" is inserted at the start. Without a
\* blockquote the whole body is replaced.
_replaceTopTextPreserveQuote(body, text) ==
  LET quote == SearchBlockquote(body)
  IN  IF quote < 0 THEN _replaceBodyWithPlainText(body, text)
      ELSE EditorText(text \o <<"\n", "\n">>) \o Slice(body, quote)

\* 2106-2142 on the markup: setComposeDetails ("api"), or, when it raises,
\* the editor manipulation ("fallback"), which may find no editor and leave
\* the body as it was ("fallbackFailed").
SetComposeBody(how) ==
  /\ details.via = "none"
  /\ details' = [details EXCEPT
       !.via = how,
       !.body =
         CASE how = "api" ->
                IF details.preserveQuotedOriginal
                THEN NewBody(details.existingBody, details.plainTextBody)
                ELSE EditorText(details.plainTextBody)
           [] how = "fallback" ->
                IF details.preserveQuotedOriginal
                THEN _replaceTopTextPreserveQuote(details.existingBody, details.plainTextBody)
                ELSE _replaceBodyWithPlainText(details.existingBody, details.plainTextBody)
           [] OTHER -> details.existingBody]
  /\ UNCHANGED <<rpc, args, loc, draftsFolder, saveJob, tab, result, peer>>
  /\ UNCHANGED <<draftVars, gateVars, deleteVars, linesVars>>

\* ------------------------------------------------------------------------
\* Start of the server (background page init, api.js mcpServer.start)
\* ------------------------------------------------------------------------
\* The places init is called from: the two event listeners and the call at
\* load time (background page 26-30).
Entrypoints == {"onInstalled", "onStartup", "load"}

\* Reloads of the background page in one run of the program.
MaxReloads == 2

NoPromise == "unset"
StartResults == {"success", "failure"}

\* Before anything called init: no promise is stored anywhere.
InitSrv ==
  [__tbMcpStartPromise |-> NoPromise,   \* api.js 411, 416
   _mcpStartPromise |-> FALSE,          \* background page 3: is it set
   attempts |-> 0,                      \* calls of server.start(MCP_PORT)
   bound |-> 0,                         \* of which bound the port
   reloads |-> 0,
   init |-> [e \in Entrypoints |-> "none"],
   received |-> <<>>]                   \* what the callers of start received

\* 411: the body of start runs only when no promise is stored.
AttemptAlways(promise) == TRUE
AttemptAfterFailure(promise) == promise # "success"
AttemptNeeded(promise) == promise = NoPromise

\* mcpServer.start up to its await at 3664. The body 416-3661 has no await:
\* the promise is stored already settled, with the object returned at 3656
\* or at 3659. A port this process has bound cannot be bound again.
mcpServerStart(s, outcome) ==
  IF AttemptNeeded(s.__tbMcpStartPromise)
  THEN LET binds == outcome = "success" /\ s.bound = 0 IN
       [s EXCEPT !.__tbMcpStartPromise = IF binds THEN "success" ELSE "failure",
                 !.attempts = @ + 1,
                 !.bound = IF binds THEN @ + 1 ELSE @]
  ELSE s

\* init of the background page (3-24) up to its await: it returns at once
\* when the page already holds a promise, else it stores one and calls
\* browser.mcpServer.start().
init(e, outcome) ==
  /\ srv.init[e] = "none"
  /\ IF srv._mcpStartPromise
     THEN outcome = "success" /\ srv' = [srv EXCEPT !.init[e] = "returned"]
     ELSE srv' = [mcpServerStart(srv, outcome) EXCEPT !._mcpStartPromise = TRUE,
                                                     !.init[e] = "awaiting"]
  /\ UNCHANGED <<draftVars, reviseVars, gw, deleteVars, linesVars>>

\* The await of start (412 or 3664) and of init (11, 21) complete: the
\* caller has the value of the stored promise.
StartResolved(e) ==
  /\ srv.init[e] = "awaiting"
  /\ srv' = [srv EXCEPT !.received = Append(@, srv.__tbMcpStartPromise),
                        !.init[e] = "returned"]
  /\ UNCHANGED <<draftVars, reviseVars, gw, deleteVars, linesVars>>

\* The extension is reloaded: a new background page, whose _mcpStartPromise
\* is null again and whose three entry points can run; globalThis of the
\* API script is the one of the process (408).
Reload ==
  /\ srv.reloads < MaxReloads
  /\ srv' = [srv EXCEPT !.reloads = @ + 1, !._mcpStartPromise = FALSE,
                        !.init = [e \in Entrypoints |-> "none"]]
  /\ UNCHANGED <<draftVars, reviseVars, gw, deleteVars, linesVars>>

\* The server after the load-time init started it.
Listening ==
  [InitSrv EXCEPT !.__tbMcpStartPromise = "success", !._mcpStartPromise = TRUE,
                  !.attempts = 1, !.bound = 1, !.init["load"] = "returned",
                  !.received = <<"success">>]

\* The gateway before a request arrived, behind the started server.
NoGw == [pos |-> "idle"]
InitGateway == srv = Listening /\ gw = NoGw /\ NoDeleteCall /\ want = NoWant

\* ------------------------------------------------------------------------
\* Specifications
\* ------------------------------------------------------------------------
Faults == {"none", "write", "dispatch", "open"}

\* The steps of call c, for idempotencyKey and content arguments drawn from
\* the given sets.
CallStep(c, keys, contents) ==
  \/ \E key \in keys, content \in contents, isHtml \in BOOLEAN, fault \in Faults,
        now \in Clock : SaveDraft(c, key, content, isHtml, fault, now)
  \/ \E outcome \in {"started", "nofn", "throw"} : RunCopy(c, outcome)
  \/ BackendCopyLands(c)
  \/ BackendCopyFails(c)
  \/ OnStopCopy(c)
  \/ CopyTimeout(c)
  \/ \E key \in Keys, found \in BOOLEAN, fault \in Faults : ReplyToMessageDraft(c, key, found, fault)
  \/ ReplyResumeAfterOpenFailed(c)
  \/ \E usable \in BOOLEAN : ComposeWindowLoaded(c, usable)
  \/ BackendSaveLands(c)
  \/ BackendSaveFails(c)
  \/ OnStopSending(c)
  \/ ComposeSaveTimeout(c)
  \/ \E d \in Calls, usable \in BOOLEAN : ObserverRunsOnOtherWindow(d, c, usable)
  \/ \E d \in Calls, ok \in BOOLEAN : ForeignSaveStops(d, c, ok)
  \/ \E key \in Keys, found \in BOOLEAN, fault \in Faults : ReplyToMessageDraftClosePrompt(c, key, found, fault)
  \/ \E isCompose \in BOOLEAN : ClosePromptWindowOpened(c, isCompose)
  \/ \E saves \in BOOLEAN : ClosePromptPasteAndClose(c, saves)
  \/ ClosePromptRelease(c)

\* Part I on keyed requests of one content.
NextDraft == \E c \in Calls : CallStep(c, Keys, {<<"a", "|", "|", "|">>})

Init == InitDraft /\ InitReviseWith(SmallFolder) /\ InitGateway
Next == NextDraft
Spec == Init /\ [][Next]_vars

\* Part I on every idempotencyKey argument and content of the model.
NextKeys == \E c \in Calls : CallStep(c, SaveDraftKeys, Contents)
SpecKeys == Init /\ [][NextKeys]_vars

\* The requests the callers make: the arguments of the call.
Request(messageId, plainTextBody, preserveQuotedOriginal, closeAfterSave) ==
  [messageId |-> messageId, plainTextBody |-> plainTextBody,
   preserveQuotedOriginal |-> preserveQuotedOriginal, closeAfterSave |-> closeAfterSave]
Requests ==
  {Request(OrigId, PayloadTok, TRUE, TRUE), Request(OrigId, PayloadPlain, TRUE, TRUE),
   Request(OrigId, PayloadTok, FALSE, FALSE), Request(OrigId, PayloadPlain, FALSE, TRUE),
   Request("missing", PayloadTok, TRUE, TRUE),
   Request(OrigId, PayloadSingle, FALSE, TRUE)}

\* ------------------------------------------------------------------------
\* The HTTP gateway (api.js 3528-3652)
\* ------------------------------------------------------------------------
\* A request as the path handler sees it: the HTTP method, whether the body
\* parses as JSON, and the id, method and params of the parsed message.
\* A member the message does not have is Absent; `arguments` lists in
\* `fields` the members params.arguments has.
Absent == "absent"
HttpRequest(httpMethod, parses, id, method, name, arguments) ==
  [httpMethod |-> httpMethod, parses |-> parses, id |-> id, method |-> method,
   name |-> name, arguments |-> arguments]
NoArguments == [fields |-> {}]

\* inputSchema.required of the descriptors (165, 296, 346).
Required(name) ==
  CASE name = "saveDraft" -> {"to", "subject", "body"}
    [] name = "reviseDraftInPlaceNativeEditor" -> {"messageId", "folderPath", "plainTextBody"}
    [] name = "listLatestMessages" -> {"folderPath"}
    [] OTHER -> {}

\* The names callTool has a case for, as far as the model follows them.
ToolNames == {"saveDraft", "reviseDraftInPlaceNativeEditor", "listLatestMessages"}

\* `${x}` of a template literal: an absent argument prints as "undefined".
TemplateArg(a, f) ==
  IF f \in a.fields THEN a[f] ELSE <<"u", "n", "d", "e", "f", "i", "n", "e", "d">>

\* `${to}|${cc}|${subject}|${body}` (1524)
ContentOf(a) ==
  TemplateArg(a, "to") \o <<"|">> \o TemplateArg(a, "cc") \o <<"|">> \o
  TemplateArg(a, "subject") \o <<"|">> \o TemplateArg(a, "body")

\* args.idempotencyKey and args.isHtml as saveDraft tests them (1504, 1524).
KeyArg(a) == IF "idempotencyKey" \in a.fields THEN a.idempotencyKey ELSE <<>>
IsHtmlArg(a) == "isHtml" \in a.fields /\ a.isHtml

\* args.limit as `limit || 20` reads it (3312): absent behaves as 0.
LimitArg(a) == IF "limit" \in a.fields THEN a.limit ELSE 0

\* One element of `items` (3334-3344): the date is null when hdr.date is 0.
ItemOf(hdr) ==
  [id |-> hdr.id, subject |-> hdr.subject,
   date |-> IF hdr.date # 0 THEN <<"iso", hdr.date>> ELSE <<"null">>]

\* The value listLatestMessages returns (3300-3350).
ListLatestValue(f, a) ==
  IF "folderPath" \notin a.fields
  THEN [error |-> "Folder not found"]
  ELSE LET top == listLatestMessages(f, LimitArg(a)) IN
       [ok |-> TRUE, count |-> Len(top), items |-> [i \in DOMAIN top |-> ItemOf(top[i])]]

Serving(r, pos, settled, writes) ==
  [pos |-> pos, req |-> r, settled |-> settled, writes |-> writes]
Pending == [kind |-> "pending"]
Returned(v) == [kind |-> "returned", value |-> v]
Thrown(message) == [kind |-> "thrown", value |-> message]

\* What the handler writes: status line, whether the body is JSON, body.
PlainText(status, text) == [status |-> status, json |-> FALSE, body |-> text]
ResultEnvelope(id, r) ==
  [status |-> 200, json |-> TRUE, body |-> [jsonrpc |-> "2.0", id |-> id, result |-> r]]
ErrorEnvelope(id, message) ==
  [status |-> 200, json |-> TRUE,
   body |-> [jsonrpc |-> "2.0", id |-> id, error |-> [code |-> -32000, message |-> message]]]

\* callTool(params.name, params.arguments || {}) up to the first await of
\* the tool (3528-3587). saveDraft and listLatestMessages return without
\* awaiting; reviseDraftInPlaceNativeEditor runs up to the lookup of the
\* draft; any other name throws at 3585.
callTool(r, fault, now, blocks) ==
  LET a == r.arguments IN
  CASE r.name = "saveDraft" ->
         /\ ~blocks
         /\ saveDraft(1, KeyArg(a), ContentOf(a), IsHtmlArg(a), fault, now)
         /\ gw' = Serving(r, "awaitingTool", Pending, <<>>)
    [] r.name = "reviseDraftInPlaceNativeEditor" ->
         /\ fault = "none"
         /\ IF blocks
            THEN LookupBlocks(a.messageId, a.plainTextBody, a.preserveQuotedOriginal,
                              a.closeAfterSave)
            ELSE reviseDraftInPlaceNativeEditor(a.messageId, a.plainTextBody,
                                                a.preserveQuotedOriginal, a.closeAfterSave)
         /\ gw' = Serving(r, "awaitingTool", Pending, <<>>)
    [] r.name = "listLatestMessages" ->
         /\ fault = "none" /\ ~blocks
         /\ gw' = Serving(r, "awaitingTool", Returned(ListLatestValue(draftsFolder, a)), <<>>)
         /\ UNCHANGED <<draftVars, reviseVars>>
    [] OTHER ->
         /\ fault = "none" /\ ~blocks
         /\ gw' = Serving(r, "awaitingTool", Thrown("Unknown tool"), <<>>)
         /\ UNCHANGED <<draftVars, reviseVars>>

\* The path handler (3591-3652) on a request, up to the await of callTool.
HandleRequest(r, fault, now, blocks) ==
  /\ srv.bound = 1
  /\ gw.pos = "idle"
  /\ UNCHANGED <<srv, deleteVars, linesVars>>
  /\ IF r.httpMethod = "POST" /\ r.parses /\ r.method = "tools/call" /\ r.name \notin {Absent, ""}
     THEN callTool(r, fault, now, blocks)
     ELSE /\ fault = "none" /\ ~blocks
          /\ UNCHANGED <<draftVars, reviseVars>>
          /\ gw' = Serving(r, "finished", Pending,
               IF r.httpMethod # "POST" THEN <<PlainText(405, "POST only")>>           \* 3594-3599
               ELSE IF ~r.parses THEN <<PlainText(400, "Invalid JSON")>>             \* 3602-3609
               ELSE IF r.method = "tools/list"
               THEN <<ResultEnvelope(r.id, [tools |-> ToolNames])>>                  \* 3617-3619, 3637-3640
               ELSE IF r.method = "tools/call"
               THEN <<ErrorEnvelope(r.id, "Missing tool name")>>                     \* 3621-3623, 3641-3649
               ELSE <<PlainText(404, "Unknown method")>>)                            \* 3631-3635

\* The promise callTool returned, as the await at 3627 sees it.
ToolPromise ==
  IF gw.settled.kind # "pending" THEN gw.settled
  ELSE IF gw.req.name = "saveDraft" THEN Returned(resp[1])
  ELSE IF gw.req.name = "reviseDraftInPlaceNativeEditor" /\ result.kind # "none"
  THEN Returned(result)
  ELSE Pending

\* The await at 3627 completes: the result envelope (3624-3640), or the
\* error envelope of the catch (3641-3649), is written and the response
\* finished (3650). The text of the result is the serialisation of the
\* value the tool returned.
ToolSettled ==
  /\ gw.pos = "awaitingTool"
  /\ ToolPromise.kind # "pending"
  /\ gw' = [gw EXCEPT !.pos = "finished", !.settled = ToolPromise,
                      !.writes = Append(@,
                        IF ToolPromise.kind = "thrown"
                        THEN ErrorEnvelope(gw.req.id, ToolPromise.value)
                        ELSE ResultEnvelope(gw.req.id,
                               [content |-> <<[type |-> "text", text |-> ToolPromise.value]>>]))]
  /\ UNCHANGED <<draftVars, reviseVars, srv, deleteVars, linesVars>>

\* Arguments of the saveDraft requests: which members are present.
SaveDraftArguments(fields, isHtml) ==
  [fields |-> fields, to |-> <<"a">>, cc |-> <<>>, subject |-> <<>>, body |-> <<>>,
   isHtml |-> isHtml, idempotencyKey |-> <<"k", "2">>]
AllSaveDraftFields == {"to", "cc", "subject", "body", "idempotencyKey"}

\* Folders for the listing: every sequence of up to MaxListLen messages
\* over ListDates (0: the header has no date).
MaxListLen == 4
ListDates == {0, 5, 7}
ListMsg(i, date) == Msg("m" \o ToString(i), DraftSubject, date, {})
ListFolders ==
  UNION {{[i \in 1..n |-> ListMsg(i, d[i])] : d \in [1..n -> ListDates]} : n \in 0..MaxListLen}
ListLimits == {-1, 0, 1, 2, 3, 150}
ListArguments ==
  {[fields |-> {"folderPath", "limit"}, limit |-> l] : l \in ListLimits}
    \cup {[fields |-> {"folderPath"}], [fields |-> {}]}

\* The requests made of the gateway.
GatewayRequests ==
  {HttpRequest("GET", TRUE, "1", "tools/list", Absent, NoArguments),
   HttpRequest("POST", FALSE, Absent, Absent, Absent, NoArguments),
   HttpRequest("POST", TRUE, "1", "initialize", Absent, NoArguments),
   HttpRequest("POST", TRUE, "1", "tools/call", Absent, NoArguments),
   HttpRequest("POST", TRUE, "1", "tools/call", "", NoArguments),
   HttpRequest("POST", TRUE, "2", "tools/call", "noSuchTool", NoArguments)}
  \cup {HttpRequest("POST", TRUE, id, "tools/list", Absent, NoArguments) : id \in {"1", "2", Absent}}
  \cup {HttpRequest("POST", TRUE, "1", "tools/call", "saveDraft", a) :
          a \in {SaveDraftArguments(AllSaveDraftFields, FALSE),
                 SaveDraftArguments(AllSaveDraftFields \cup {"isHtml"}, TRUE),
                 SaveDraftArguments(AllSaveDraftFields \ {"idempotencyKey"}, FALSE),
                 SaveDraftArguments(AllSaveDraftFields \ {"to"}, FALSE),
                 SaveDraftArguments({"idempotencyKey"}, FALSE)}}
  \cup {HttpRequest("POST", TRUE, "2", "tools/call", "reviseDraftInPlaceNativeEditor",
                    [fields |-> {"messageId", "folderPath", "plainTextBody",
                                 "preserveQuotedOriginal", "closeAfterSave"},
                     messageId |-> q.messageId, plainTextBody |-> q.plainTextBody,
                     preserveQuotedOriginal |-> q.preserveQuotedOriginal,
                     closeAfterSave |-> q.closeAfterSave]) : q \in Requests}
  \cup {HttpRequest("POST", TRUE, "1", "tools/call", "listLatestMessages", a) : a \in ListArguments}

NextRevise ==
  \/ \E r \in Requests :
       ReviseStart(r.messageId, r.plainTextBody, r.preserveQuotedOriginal, r.closeAfterSave)
  \/ \E opened \in BOOLEAN : BeginNew(opened)
  \/ \E found \in BOOLEAN : LocateEditor(found)
  \/ \E how \in {"api", "fallback", "fallbackFailed"} : EditBody(how)
  \/ SnapshotAndSave
  \/ \E kind \in {"messages", "noMessages", "threw", "timeout"} : SaveReturns(kind)
  \/ PollAfterSave
  \/ DetectFastPath
  \/ ScanAttempt
  \/ \E deleteRaises \in BOOLEAN : Reconcile(deleteRaises)
  \/ \E closed \in BOOLEAN : CloseAndReturn(closed)
  \/ \E mode \in {"inplace", "newcopy"} : SaveLands(mode)
  \/ SaveFails
  \/ AfterSaveEvent
  \/ \E r \in Requests :
       ReviseStartBlocks(r.messageId, r.plainTextBody, r.preserveQuotedOriginal, r.closeAfterSave)
  \/ ScanAttemptBlocks
  \/ CloseBlocks

InitRevise == InitDraft /\ InitGateway /\ \E f \in InitialFolders : InitReviseWith(f)
SpecRevise == InitRevise /\ [][NextRevise]_vars

\* Part II with the second, overlapping call.
NextOverlap ==
  \/ NextRevise
  \/ PeerStart
  \/ \E mode \in {"inplace", "newcopy"} : PeerSaveLands(mode)
  \/ PeerReturns

InitOverlap == InitDraft /\ InitGateway /\ \E f \in {SmallFolder, MixedFolder} : InitReviseWith(f)
SpecOverlap == InitOverlap /\ [][NextOverlap]_vars

\* The body edit on every existing body and new text within the bounds.
InitCompose ==
  /\ InitDraft /\ InitGateway
  /\ rpc = "idle" /\ args = NoArgs /\ loc = InitLoc /\ draftsFolder = SmallFolder
  /\ saveJob = NoJob /\ tab = "open" /\ result = NoResult /\ peer = "none"
  /\ \E existingBody \in ExistingBodies, plainTextBody \in PlainTexts,
        preserveQuotedOriginal \in BOOLEAN :
       details = [existingBody |-> existingBody, plainTextBody |-> plainTextBody,
                  preserveQuotedOriginal |-> preserveQuotedOriginal,
                  body |-> existingBody, via |-> "none"]

NextCompose == \E how \in {"api", "fallback", "fallbackFailed"} : SetComposeBody(how)

SpecCompose == InitCompose /\ [][NextCompose]_vars

\* The gateway serving one request: the handler, the tools it calls and
\* their asynchronous continuations.
InitServing ==
  /\ InitDraft /\ InitGateway
  /\ \E f \in InitialFolders \cup ListFolders : InitReviseWith(f)
NextServing ==
  \/ \E r \in GatewayRequests, fault \in {"none", "write", "dispatch"}, now \in Clock,
        blocks \in BOOLEAN : HandleRequest(r, fault, now, blocks)
  \/ ToolSettled
  \/ \E outcome \in {"started", "nofn", "throw"} : RunCopy(1, outcome)
  \/ BackendCopyLands(1)
  \/ BackendCopyFails(1)
  \/ OnStopCopy(1)
  \/ CopyTimeout(1)
  \/ \E opened \in BOOLEAN : BeginNew(opened)
  \/ \E found \in BOOLEAN : LocateEditor(found)
  \/ \E how \in {"api", "fallback", "fallbackFailed"} : EditBody(how)
  \/ SnapshotAndSave
  \/ \E kind \in {"messages", "noMessages", "threw", "timeout"} : SaveReturns(kind)
  \/ PollAfterSave
  \/ DetectFastPath
  \/ ScanAttempt
  \/ \E deleteRaises \in BOOLEAN : Reconcile(deleteRaises)
  \/ \E closed \in BOOLEAN : CloseAndReturn(closed)
  \/ \E mode \in {"inplace", "newcopy"} : SaveLands(mode)
  \/ SaveFails
  \/ AfterSaveEvent
  \/ ScanAttemptBlocks
  \/ CloseBlocks
SpecServing == InitServing /\ [][NextServing]_vars

\* The start of the server from every entry point, with reloads.
InitStart == InitDraft /\ InitReviseWith(SmallFolder) /\ srv = InitSrv /\ gw = NoGw /\ NoDeleteCall /\ want = NoWant
NextStart ==
  \/ \E e \in Entrypoints, outcome \in StartResults : init(e, outcome)
  \/ \E e \in Entrypoints : StartResolved(e)
  \/ Reload
SpecStart == InitStart /\ [][NextStart]_vars

\* ------------------------------------------------------------------------
\* deleteMessages and moveMessages
\* ------------------------------------------------------------------------
\* Folder URIs of the model.
InboxURI == "mailbox://acct/Inbox"
DraftsURI == "mailbox://acct/Drafts"
DraftsSubURI == "mailbox://acct/Drafts/Old"
DeletedItemsURI == "mailbox://acct/Deleted Items"
MissingURI == "mailbox://acct/Nowhere"

\* /\/Drafts$/i.test(URI) || /\/Drafts\b/i.test(URI) (3431).
IsDraftsURI(uri) == uri \in {DraftsURI, DraftsSubURI}

\* URI.replace(/\/Drafts$/i, "/Deleted Items") (3432): only a URI that ends
\* in /Drafts is rewritten.
DeletedItemsURIOf(uri) == IF uri = DraftsURI THEN DeletedItemsURI ELSE uri

\* MailServices.folderLookup.getFolderForURL(uri) is not null.
FolderExists(uri) == uri \in DOMAIN mailFolders

\* The position of the first header of the folder with that Message-ID, 0
\* when there is none (the inner loop of 3358-3363 with its break).
FirstHdrWith(folder, id) ==
  IF \E i \in 1..Len(folder) : folder[i] = id
  THEN CHOOSE i \in 1..Len(folder) :
         folder[i] = id /\ \A j \in 1..(i - 1) : folder[j] # id
  ELSE 0

\* _getMessageHdrsByIds (3352-3367): for each id in turn, the first header
\* with that Message-ID, if any. Headers are positions in the folder.
RECURSIVE _getMessageHdrsByIds(_, _)
_getMessageHdrsByIds(folder, ids) ==
  IF ids = <<>> THEN <<>>
  ELSE LET found == FirstHdrWith(folder, Head(ids))
       IN (IF found # 0 THEN <<found>> ELSE <<>>) \o _getMessageHdrsByIds(folder, Tail(ids))

HdrSet(hdrs) == {hdrs[i] : i \in 1..Len(hdrs)}

\* The folder without the given headers, and the given headers in folder
\* order.
RECURSIVE FilterHdrs(_, _, _, _)
FilterHdrs(folder, hs, keep, i) ==
  IF i > Len(folder) THEN <<>>
  ELSE (IF (i \in hs) = keep THEN <<>> ELSE <<folder[i]>>) \o FilterHdrs(folder, hs, keep, i + 1)
WithoutHdrs(folder, hdrs) == FilterHdrs(folder, HdrSet(hdrs), TRUE, 1)
OnlyHdrs(folder, hdrs) == FilterHdrs(folder, HdrSet(hdrs), FALSE, 1)

DelReturn(d, r) == del' = [d EXCEPT !.pos = "returned", !.result = r]
DelError == [status |-> "error", count |-> 0, via |-> "none"]
DelSuccess(n, via) == [status |-> "success", count |-> n, via |-> via]

\* moveMessages (3369-3419) up to the call of the copy service: both folders
\* exist at its one call site; nothing matches -> success with moved 0; no
\* copy function or an exception -> error; else the move is handed to the
\* copy service and the promise waits for OnStopCopy. There is no timer.
moveMessages(d, fromFolderPath, toFolderPath, messageIds, fault) ==
  LET hdrs == _getMessageHdrsByIds(mailFolders[fromFolderPath], messageIds) IN
  /\ UNCHANGED mailFolders
  /\ IF hdrs = <<>> THEN DelReturn(d, DelSuccess(0, "moved"))
     ELSE IF fault # "none" THEN DelReturn(d, DelError)
     ELSE del' = [d EXCEPT !.pos = "moving", !.to = toFolderPath, !.hdrs = hdrs]

\* deleteMessages (3421-3462). Fault "raise" is both signatures of
\* folder.deleteMessages (3449, 3452) or the copy call (3414) throwing,
\* "nofn" the copy service without CopyMessages (3408). del.before keeps
\* the folders as they were at the call.
deleteMessages(folderPath, messageIds, fault) ==
  /\ del.pos = "idle"
  /\ LET d == [del EXCEPT !.folderPath = folderPath, !.messageIds = messageIds,
                          !.before = mailFolders]
     IN IF ~FolderExists(folderPath)
        THEN DelReturn(d, DelError) /\ UNCHANGED mailFolders
        ELSE IF IsDraftsURI(folderPath) /\ FolderExists(DeletedItemsURIOf(folderPath))
        THEN moveMessages(d, folderPath, DeletedItemsURIOf(folderPath), messageIds, fault)
        ELSE LET hdrs == _getMessageHdrsByIds(mailFolders[folderPath], messageIds) IN
             IF hdrs = <<>>
             THEN DelReturn(d, DelSuccess(0, "deleted")) /\ UNCHANGED mailFolders
             ELSE IF fault = "raise"
             THEN DelReturn(d, DelError) /\ UNCHANGED mailFolders
             ELSE /\ fault = "none"
                  /\ mailFolders' = [mailFolders EXCEPT ![folderPath] = WithoutHdrs(@, hdrs)]
                  /\ DelReturn(d, DelSuccess(Len(hdrs), "deleted"))
  /\ UNCHANGED <<draftVars, reviseVars, gateVars, linesVars>>

\* OnStopCopy of the move listener (3397-3404): a failure status resolves
\* with an error and the folders as they were; otherwise the headers have
\* left the source folder for the destination and the call resolves with
\* moved = hdrs.length.
MoveOnStopCopy(ok) ==
  /\ del.pos = "moving"
  /\ IF ok
     THEN LET from == del.folderPath
              moved == OnlyHdrs(mailFolders[from], del.hdrs)
              left == [mailFolders EXCEPT ![from] = WithoutHdrs(@, del.hdrs)]
          IN /\ mailFolders' = [left EXCEPT ![del.to] = @ \o moved]
             /\ DelReturn(del, DelSuccess(Len(del.hdrs), "moved"))
     ELSE UNCHANGED mailFolders /\ DelReturn(del, DelError)
  /\ UNCHANGED <<draftVars, reviseVars, gateVars, linesVars>>

\* Inputs: folders of up to MaxDelLen messages over two Message-IDs (a
\* folder can hold two messages with one Message-ID), requests of up to two
\* ids, one of which is in no folder.
MaxDelLen == 3
DelIds == {"m1@x", "m2@x"}
DelFolders == UNION {[1..n -> DelIds] : n \in 0..MaxDelLen}
DelRequests == UNION {[1..n -> DelIds \cup {"m9@x"}] : n \in 0..2}
DelTargets == {InboxURI, DraftsURI, DraftsSubURI}

InitDelete ==
  /\ InitDraft /\ InitReviseWith(SmallFolder) /\ srv = Listening /\ gw = NoGw
  /\ del = NoDel /\ want = NoWant
  /\ \E u \in DelTargets, f \in DelFolders, sibling \in BOOLEAN :
       mailFolders = [v \in {u} \cup (IF sibling THEN {DeletedItemsURI} ELSE {}) |->
                        IF v = u THEN f ELSE <<>>]
NextDelete ==
  \/ \E folderPath \in DelTargets \cup {MissingURI}, messageIds \in DelRequests,
        fault \in {"none", "nofn", "raise"} : deleteMessages(folderPath, messageIds, fault)
  \/ \E ok \in BOOLEAN : MoveOnStopCopy(ok)
SpecDelete == InitDelete /\ [][NextDelete]_vars

\* C38: after deleteMessages reports success, no message with one of the
\* given ids remains in the folder; a Drafts folder with a sibling Deleted
\* Items folder has its messages moved there instead of deleted; ids that
\* match nothing give a success with count 0 and no change.
IdsIn(folder) == {folder[i] : i \in 1..Len(folder)}
Matching(folder, ids) == {i \in 1..Len(folder) : folder[i] \in IdsIn(ids)}
DelSucceeded == del.pos = "returned" /\ del.result.status = "success"
C38_DeleteRemovesEveryMatch ==
  DelSucceeded =>
    LET from == del.folderPath
        was == del.before[from]
    IN /\ IdsIn(mailFolders[from]) \cap IdsIn(del.messageIds) = {}
       /\ (from = DraftsURI /\ DeletedItemsURI \in DOMAIN del.before) =>
            /\ del.result.via = "moved"
            /\ Len(mailFolders[DeletedItemsURI]) + Len(mailFolders[from])
                 = Len(del.before[DeletedItemsURI]) + Len(was)
       /\ Matching(was, del.messageIds) = {} =>
            del.result.count = 0 /\ mailFolders = del.before

\* ------------------------------------------------------------------------
\* _linesFromText on its own
\* ------------------------------------------------------------------------
\* Payloads: every sequence of up to MaxPayloadLines raw lines (token lines
\* short and long, short and long other lines, blank lines, a line with
\* surrounding white space), and payloads of more than twenty lines.
MaxPayloadLines == 3
RawLines == {"TOK1", "TOK2-7", "Hi", "tok1", "Best,", "  Best,  ", "Jiachang", "", "   "}
ShortPayloads == UNION {[1..n -> RawLines] : n \in 0..MaxPayloadLines}
Repeat(l, n) == [i \in 1..n |-> l]
LongPayloads ==
  {FillerLines, ManyTokenLines,
   FillerLines \o <<"TOK1">>,
   <<"Hi", "TOK">> \o ManyTokenLines \o <<"MYTOK1">>,
   SubSeq(FillerLines, 1, 19) \o <<"Hi", "TOK1", "Line 01">>,
   Repeat("Best,", 21) \o <<"Jiachang">>}

InitLines ==
  /\ InitDraft /\ InitReviseWith(SmallFolder) /\ srv = Listening /\ gw = NoGw
  /\ NoDeleteCall
  /\ \E t \in ShortPayloads \cup LongPayloads :
       want = [plainTextBody |-> t, pos |-> "idle", wantLines |-> <<>>]

\* const wantLines = _linesFromText(plainTextBody) (2170)
LinesFromText ==
  /\ want.pos = "idle"
  /\ want' = [want EXCEPT !.pos = "returned", !.wantLines = _linesFromText(want.plainTextBody)]
  /\ UNCHANGED <<draftVars, reviseVars, gateVars, deleteVars>>

\* The same payload is evaluated again (each revise call evaluates it anew).
LinesAgain ==
  /\ want.pos = "returned"
  /\ want' = [want EXCEPT !.pos = "idle", !.wantLines = <<>>]
  /\ UNCHANGED <<draftVars, reviseVars, gateVars, deleteVars>>

NextLines == LinesFromText \/ LinesAgain
SpecLines == InitLines /\ [][NextLines]_vars

\* The trimmed, non-empty lines of a payload.
TrimmedLines(t) == {TrimLine(t[i]) : i \in DOMAIN t} \ {""}

\* C39: the expected fragments of a payload are trimmed non-empty lines of
\* it, without duplicates and at most 20; a line with a token marker is
\* kept even when shorter than 5 characters (token lines come first, so one
\* is left out only when 20 token lines are already kept); a line without a
\* marker and shorter than 5 characters is never kept; and when the payload
\* has at most 20 lines, every line with a marker or of 5 characters or
\* more is kept.
C39_FragmentsOfPayload ==
  want.pos = "returned" =>
    LET t == want.plainTextBody
        r == want.wantLines
        kept == SeqRange(r)
    IN /\ kept \subseteq TrimmedLines(t)
       /\ \A i, j \in DOMAIN r : i # j => r[i] # r[j]
       /\ Len(r) <= MaxWantLines
       /\ \A l \in TrimmedLines(t) :
            IsTokenLine(l) =>
              \/ l \in kept
              \/ Len(r) = MaxWantLines /\ \A k \in kept : IsTokenLine(k)
       /\ \A l \in kept : ~IsTokenLine(l) => LineLength[l] >= MinNormalLength
       /\ Len(t) <= MaxWantLines =>
            \A l \in TrimmedLines(t) : LineLength[l] >= MinNormalLength => l \in kept

\* A payload with a short token line, a short plain line and a long line
\* was evaluated: the token line and the long line are kept, the short
\* plain line is not.
C39_Witness ==
  /\ want.pos = "returned"
  /\ {"TOK1", "Hi", "Jiachang"} \subseteq TrimmedLines(want.plainTextBody)
  /\ "TOK1" \in SeqRange(want.wantLines)
  /\ "Jiachang" \in SeqRange(want.wantLines)
  /\ "Hi" \notin SeqRange(want.wantLines)

\* ------------------------------------------------------------------------
\* Properties of Part I
\* ------------------------------------------------------------------------
CopiesOf(id) == CopiesIn(id, drafts)

\* C1: however often saveDraft is called with one idempotency key, the Drafts
\* folder never holds more than one draft with the Message-ID derived from
\* that key.
C1_AtMostOneDraftPerKey ==
  \A key \in Keys : CopiesOf(DraftMessageId(key)) <= 1

\* C2: no two backend copies/saves started for the same token are in flight
\* at the same time.
C2_NoTwoMutationsInFlight ==
  \A c, d \in Calls :
    (c # d /\ tok[c] = tok[d] /\ tok[c] # NoId) =>
      ~(backend[c] = "inflight" /\ backend[d] = "inflight")

\* Call c is issued in this step as saveDraft.
IssuesSaveDraft(c) == op[c] = "none" /\ op'[c] = "saveDraft"
Visible(id) == CopiesOf(id) > 0
SchedulesNothing ==
  /\ bg' = bg /\ backend' = backend /\ drafts' = drafts
  /\ _pendingDraftMessageIds' = _pendingDraftMessageIds

\* C3 (as amended): a saveDraft call whose deterministic Message-ID is
\* already visible in the Drafts folder schedules no copy and returns a
\* success result carrying that messageId: "already exists" when the id is
\* not in the pending set (in particular when the set is empty), "already
\* pending" when it still is.
C3_VisibleDraftIsNotCopiedAgain ==
  [][\A c \in Calls :
       (IssuesSaveDraft(c) /\ tok'[c] # NoId /\ Visible(tok'[c])) =>
         /\ SchedulesNothing
         /\ resp'[c].messageId = tok'[c]
         /\ resp'[c].kind =
              IF tok'[c] \in _pendingDraftMessageIds THEN "pending" ELSE "exists"]_vars

\* C3 witness: a saveDraft call was answered "already exists" while the
\* pending set is empty.
C3_Witness ==
  \E c \in Calls :
    /\ op[c] = "saveDraft" /\ resp[c].kind = "exists"
    /\ Visible(tok[c]) /\ _pendingDraftMessageIds = {}

\* C3 as stated: a saveDraft call whose deterministic Message-ID is already
\* visible always returns the "already exists" result.
C3_VisibleAlwaysAnswersExists ==
  [][\A c \in Calls :
       (IssuesSaveDraft(c) /\ tok'[c] # NoId /\ Visible(tok'[c])) =>
         resp'[c].kind = "exists"]_vars

\* Positions of a continuation from which the code still reaches the
\* removal of its id from the pending set.
ReleaseArmed == {"runnable", "copying", "awaitSave", "resolved", "awaitWindow",
                 "pasting", "releaseTimer"}

\* C4: every id in the pending set belongs to a call whose continuation is
\* still on its way to removing it.
C4_PendingIdHasRelease ==
  \A id \in _pendingDraftMessageIds :
    \E c \in Calls : tok[c] = id /\ bg[c] \in ReleaseArmed

\* ------------------------------------------------------------------------
\* Properties of Part II
\* ------------------------------------------------------------------------
ReturnedOk == rpc = "returned" /\ result.kind = "ok"
InFolder(id) == id \in FolderIds(draftsFolder)

\* C5: when saveMessage returned a message with a headerMessageId, no scan
\* attempt is made and the result's messageId is that id.
C5_FastPathPrecedence ==
  loc.saveRes.kind = "messages" =>
    /\ loc.attempts = 0
    /\ ReturnedOk => (result.messageId = loc.saveRes.id /\ result.attempts = 0)

\* C5 witness: the call returned the id saveMessage gave, which is not the
\* original id, in a folder holding other drafts of the same subject.
C5_Witness ==
  /\ ReturnedOk /\ loc.saveRes.kind = "messages"
  /\ result.messageId = NewId /\ InFolder("other")

\* C6: when saveMessage returned no id and no candidate was picked, the
\* result's messageId is null.
C6_NullWhenUndetected ==
  (ReturnedOk /\ loc.saveRes.kind # "messages" /\ result.picked = NoPick) =>
    result.messageId = ""

\* C7: after an ok return the original and a newly saved copy are not both
\* in the folder (leaving aside a deletion that was tried and failed).
C7_OneDraftAfterOk ==
  (ReturnedOk /\ (loc.deleteAttempted => loc.deletedOld)) =>
    ~(InFolder(result.oldMessageId) /\ InFolder(NewId))

\* C8: after an ok return that reports the body as replaced, the result's
\* messageId names a draft in the folder whose body holds the lines submitted
\* by the call.
C8_ResultHoldsNewContent ==
  (ReturnedOk /\ result.replaced) =>
    /\ InFolder(result.messageId)
    /\ PayloadLines(args.plainTextBody) \subseteq getRawMessage(draftsFolder, result.messageId)

DetectionPositions == {"awaitSave", "pollAfterSave", "detect", "scan", "reconcile", "close"}

\* Steps the call can still take from its position, at most.
StepsLeft ==
  CASE rpc = "awaitSave" -> MaxAfterSavePolls + MaxAttempts + 6
    [] rpc = "pollAfterSave" -> (MaxAfterSavePolls - loc.polls) + MaxAttempts + 5
    [] rpc = "detect" -> MaxAttempts + 4
    [] rpc = "scan" -> (MaxAttempts - loc.attempts) + 3
    [] rpc = "reconcile" -> 2
    [] rpc = "close" -> 1
    [] OTHER -> 0

\* Events the backend can still deliver: the end of the save, the after-save
\* notification.
BackendEventsLeft ==
  (IF saveJob.state = "inflight" THEN 1 ELSE 0) + (IF loc.afterSaveInfo THEN 0 ELSE 1)

DetectionMeasure == 3 * StepsLeft + BackendEventsLeft

\* The budgets of the detection phase and the range of the measure.
WithinBudgets ==
  /\ loc.polls <= MaxAfterSavePolls
  /\ loc.attempts <= MaxAttempts
  /\ loc.pagesRead <= MaxPages
  /\ loc.listCalls <= MaxPages + 1
  /\ loc.fetched <= MaxFetch
  /\ DetectionMeasure >= 0
  /\ (rpc = "returned" <=> (StepsLeft = 0 /\ result # NoResult))

\* A step taken between the save request and the return lowers the measure.
MeasureDescends ==
  rpc \in DetectionPositions =>
    /\ DetectionMeasure' < DetectionMeasure
    /\ rpc' \in DetectionPositions \cup {"returned"}

\* C10: from the save request on, the call stays within its budgets (40
\* polls, then 12 scan attempts, each examining at most 8 list pages, with at
\* most one further list request, and fetching at most 18 candidates), and
\* every step strictly lowers a measure that is a natural number and leads
\* to another position of the detection phase or to the return: the call
\* returns after a bounded number of steps, whatever the backend does.
\* The budgets hold; the step of a scan attempt into the abortList that never
\* resolves (ScanAttemptBlocks), and the one into tabs.remove (CloseBlocks),
\* leave the detection phase without returning.
C10_DetectionTerminates == []WithinBudgets /\ [][MeasureDescends]_vars

\* The backend never completed the save, nothing was picked, every budget
\* was used up, and the call returned.
C10_Witness ==
  /\ ReturnedOk /\ saveJob.state = "inflight" /\ ~loc.afterSaveInfo
  /\ result.picked = NoPick
  /\ loc.pollBudgetSpent /\ loc.attempts = MaxAttempts
  /\ loc.pagesRead = MaxPages /\ loc.fetched = MaxFetch

\* ------------------------------------------------------------------------
\* Properties of the awaits of Part II
\* ------------------------------------------------------------------------
\* Positions in which the call is suspended on an await that no timer ends.
BlockedPositions == {"blockedInLookup", "blockedInAbortList", "blockedInTabsRemove"}

\* C11: every suspension of reviseDraftInPlaceNativeEditor on a backend call
\* is raced against a timeout, so the call is never suspended for good on a
\* backend call that does not complete.
C11_EverySuspensionIsTimed == rpc \notin BlockedPositions

\* ------------------------------------------------------------------------
\* Properties of overlapping revise calls
\* ------------------------------------------------------------------------
\* C12: of two overlapping reviseDraftInPlaceNativeEditor calls for the same
\* draft with the same new content, at most one is admitted to open, edit
\* and save the draft: the second call, started while the first is in
\* progress, never opens the draft and never saves.
C12_AtMostOneAdmitted == peer \notin {"opened", "saved"}

\* ------------------------------------------------------------------------
\* Properties of replyToMessageDraft retries and of the pending set
\* ------------------------------------------------------------------------
\* C13: a replyToMessageDraft call issued with the key of an earlier call
\* that completed successfully ("Reply draft saved", success true) creates
\* no second reply draft: it is answered "already exists" at once.
C13_SecondReplyAnswersExists ==
  [][\A c, d \in Calls :
       (/\ op[c] = "reply" /\ resp[c].kind = "saved"
        /\ op[d] = "none" /\ op'[d] = "reply"
        /\ tok'[d] = tok[c])
       => resp'[d].kind = "exists"]_vars

\* The step in which call c returns its response to the caller.
Returns(c) == resp[c] = NoResp /\ resp'[c] # NoResp

\* Call c put its token into the pending set: in this very step (saveDraft
\* and the useClosePromptSave path return in the step that inserts), or
\* before it was suspended (default reply path).
InsertedBy(c) ==
  \/ tok'[c] \in _pendingDraftMessageIds' \ _pendingDraftMessageIds
  \/ bg[c] \in {"awaitSave", "resolved"}

C15_BackendFailureAborts ==
  loc.afterSaveErr =>
    /\ loc.attempts = 0
    /\ ~loc.deleteAttempted
    /\ rpc = "returned" => result.kind = "error"

\* ------------------------------------------------------------------------
\* Properties of the body edit
\* ------------------------------------------------------------------------
Markers == {CitePrefix, CiteQuote, PlainQuote}
HasMarker(b) == \E i \in DOMAIN b : b[i] \in Markers
Positions(b, pieces) == {i \in DOMAIN b : b[i] \in pieces}
Lowest(S) == CHOOSE i \in S : \A j \in S : i <= j

\* The quote boundary X (as a position, from 1): the moz-cite-prefix div,
\* else the first cite blockquote, else the first blockquote.
Boundary(b) ==
  IF Positions(b, {CitePrefix}) # {} THEN Lowest(Positions(b, {CitePrefix}))
  ELSE IF Positions(b, {CiteQuote}) # {} THEN Lowest(Positions(b, {CiteQuote}))
  ELSE Lowest(Positions(b, {PlainQuote}))

C17_NoMarkerReplacesAll ==
  (/\ details.via \in {"api", "fallback"} /\ details.preserveQuotedOriginal
   /\ ~HasMarker(details.existingBody)) =>
    /\ details.via = "api" => details.body = TopHtml(details.plainTextBody)
    /\ details.via = "fallback" =>
         details.body = EditorText(details.plainTextBody \o <<"\n">>)
    /\ \A i \in DOMAIN details.body : details.body[i] \notin BodyPieces

\* C17 witness: a body of text and a signature div, no marker, was replaced
\* by the head markup alone.
C17_Witness ==
  /\ details.via = "api" /\ details.preserveQuotedOriginal
  /\ details.existingBody = <<Txt, OtherDiv>>
  /\ details.plainTextBody = <<"<">>
  /\ details.body = <<"<p>", "&lt;", "</p>\n<br>\n<br>\n">>

\* ------------------------------------------------------------------------
\* Properties of the diagnostics of Part II
\* ------------------------------------------------------------------------
\* C18: when the call resolved another id than the original and the
\* deletion of the original did not happen (the delete call raised, or the
\* original was not found), the diagnostics returned to the caller
\* (debug.detectSavedDraft.errors) hold a record of the failure.
C18_DeletionFailureRecorded ==
  (ReturnedOk /\ result.messageId # result.oldMessageId /\ ~result.deletedOld)
    => result.errors # <<>>

\* ------------------------------------------------------------------------
\* Properties of the scheduled copy of saveDraft
\* ------------------------------------------------------------------------
\* The continuation of call c has ended and no backend copy of c is under
\* way or has landed: nothing that c started can still create the draft.
CopyOver(c) == bg[c] = "done" /\ backend[c] \in {"none", "failed", "failedTold"}

\* C19: when saveDraft answered "Draft save scheduled" with a messageId, a
\* draft with that Message-ID comes to exist in the Drafts folder; so once
\* everything the call started is over, the draft is there.
C19_ScheduledDraftExists ==
  \A c \in Calls :
    (op[c] = "saveDraft" /\ resp[c].kind = "scheduled" /\ CopyOver(c)) => Visible(tok[c])

\* ------------------------------------------------------------------------
\* Properties of the derivation of the Message-ID
\* ------------------------------------------------------------------------
\* Two saveDraft calls make the same request: the same non-empty
\* idempotencyKey, or no key and the same (to, cc, subject, body).
SameRequest(c, d) ==
  /\ op[c] = "saveDraft" /\ op[d] = "saveDraft"
  /\ tok[c] # NoId /\ tok[d] # NoId
  /\ req[c].idempotencyKey = req[d].idempotencyKey
  /\ req[c].idempotencyKey = <<>> => req[c].content = req[d].content

\* C20: the Message-ID is a function of the request: two saveDraft calls
\* with the same non-empty idempotencyKey, or without a key and with the
\* same (to, cc, subject, body), derive the same draft Message-ID, for every
\* key string.
C20_SameRequestSameId ==
  \A c, d \in Calls : SameRequest(c, d) => tok[c] = tok[d]

C40_State ==
  srv.__tbMcpStartPromise = "failure" =>
    /\ srv.attempts = 1 /\ srv.bound = 0
    /\ \A i \in DOMAIN srv.received : srv.received[i] = "failure"
C40_Step ==
  srv.__tbMcpStartPromise = "failure" =>
    /\ srv'.__tbMcpStartPromise = "failure"
    /\ srv'.attempts = srv.attempts
    /\ srv'.bound = 0
IsToolsCall ==
  gw.pos # "idle" /\ gw.req.httpMethod = "POST" /\ gw.req.parses /\ gw.req.method = "tools/call"
HasResult(w) == w.json /\ "result" \in DOMAIN w.body
HasError(w) == w.json /\ "error" \in DOMAIN w.body
Envelope(w) ==
  /\ w.json /\ w.body.jsonrpc = "2.0" /\ w.body.id = gw.req.id
  /\ HasResult(w) # HasError(w)
  /\ HasError(w) => w.body.error.code # 0
HandlerThrew ==
  gw.req.name \in {Absent, ""} \/ gw.req.name \notin ToolNames \/ gw.settled.kind = "thrown"
\* The tool's promise is pending and the call is suspended in an await that
\* no timer bounds.
Unanswerable == gw.pos = "awaitingTool" /\ rpc \in BlockedPositions

\* C21: a tools/call request gets exactly one response, with the request's
\* id and exactly one of result and error; a handler that throws (unknown or
\* missing tool name included) gets the error envelope with a non-zero
\* code; no request is left unanswered.
C21_ExactlyOneResponse ==
  IsToolsCall =>
    /\ Len(gw.writes) <= 1
    /\ \A i \in DOMAIN gw.writes : Envelope(gw.writes[i])
    /\ gw.pos = "finished" =>
         /\ Len(gw.writes) = 1
         /\ HandlerThrew => HasError(gw.writes[1])
    /\ ~Unanswerable

\* C22: every response the gateway writes has HTTP status 200 and a
\* JSON-RPC-shaped body, whatever the request: a success, a tool error, an
\* unknown method (reported as an error inside the JSON) or a malformed
\* request.
C22_AlwaysStatus200Json ==
  gw.pos = "finished" =>
    /\ Len(gw.writes) = 1
    /\ gw.writes[1].status = 200
    /\ gw.writes[1].json
    /\ HasResult(gw.writes[1]) # HasError(gw.writes[1])
    /\ (gw.req.parses /\ gw.req.method \notin {"tools/list", "tools/call"})
         => HasError(gw.writes[1])

\* The value a tool returned reports an error.
ToolError(v) == "error" \in DOMAIN v \/ ("kind" \in DOMAIN v /\ v.kind = "error")
Rejected(w) ==
  HasError(w) \/ (HasResult(w) /\ ToolError(w.body.result.content[1].text))
MissesRequired ==
  /\ IsToolsCall /\ gw.req.name \in ToolNames
  /\ ~(Required(gw.req.name) \subseteq gw.req.arguments.fields)

\* C23: a tools/call whose arguments lack a member the tool's descriptor
\* lists as required is answered with an error, and nothing was handed to
\* the backend for it: no copy scheduled or started, no token pending, no
\* revise call under way.
C23_MissingRequiredRejected ==
  MissesRequired =>
    /\ \A i \in DOMAIN gw.writes : Rejected(gw.writes[i])
    /\ bg[1] = "none" /\ backend[1] = "none" /\ _pendingDraftMessageIds = {}
    /\ rpc \in {"idle", "returned"} /\ tab = "none"

\* The folder sorted by date, newest first, messages of equal date in folder
\* order: the first message of greatest date, then the rest sorted.
FirstNewest(f) ==
  CHOOSE i \in DOMAIN f :
    /\ \A j \in DOMAIN f : f[j].date <= f[i].date
    /\ \A j \in 1..(i - 1) : f[j].date < f[i].date
RECURSIVE SortedByDate(_)
SortedByDate(f) ==
  IF f = <<>> THEN <<>>
  ELSE LET i == FirstNewest(f)
       IN  <<f[i]>> \o SortedByDate(SubSeq(f, 1, i - 1) \o SubSeq(f, i + 1, Len(f)))
\* limit clamped to 1..100, 20 when no limit is given.
ClampedLimit(a) ==
  IF "limit" \notin a.fields THEN 20
  ELSE IF a.limit < 1 THEN 1 ELSE IF a.limit > 100 THEN 100 ELSE a.limit
ListCall ==
  /\ IsToolsCall /\ gw.req.name = "listLatestMessages"
  /\ "folderPath" \in gw.req.arguments.fields

\* C25: listLatestMessages(folder, limit) returns min(n, folder size)
\* messages, n being limit clamped to 1..100 (20 without a limit): the
\* first n of the folder sorted by date, newest first; the folder is as it
\* was.
C25_ListsNewest ==
  ListCall =>
    LET v == gw.settled.value
        n == IF ClampedLimit(gw.req.arguments) < Len(draftsFolder)
             THEN ClampedLimit(gw.req.arguments) ELSE Len(draftsFolder)
        sorted == SortedByDate(draftsFolder)
    IN  /\ v.count = n /\ Len(v.items) = n
        /\ \A i \in 1..n : v.items[i] = ItemOf(sorted[i])

\* ------------------------------------------------------------------------
\* Properties of the scan
\* ------------------------------------------------------------------------
\* A step that is one scan attempt.
ScanAttemptStep ==
  rpc = "scan" /\ loc'.attempts = loc.attempts + 1 /\ rpc' \in {"scan", "reconcile"}
\* The number of wanted lines the raw body of a message of the folder holds.
Overlap(id) == Score(getRawMessage(draftsFolder, id), loc.wantLines)
\* The threshold as stated: 1 with a token marker in the payload, else 2.
StatedThreshold == IF loc.wantHasToken THEN 1 ELSE 2
\* The folder holds the newly saved copy, which the snapshot does not have
\* and whose body holds the token line, and every message of the folder is
\* within the pages an attempt reads.
NewTokenDraftListed ==
  /\ loc.wantHasToken
  /\ NewId \in FolderIds(draftsFolder) /\ NewId \notin SeqRange(loc.before)
  /\ \E l \in getRawMessage(draftsFolder, NewId) : IsTokenLine(l)
  /\ Len(draftsFolder) <= MaxPages * PageSize

\* C26: when saveMessage returned no id and a scan attempt runs on a folder
\* holding a new draft whose raw body contains the token marker of the
\* payload, the attempt resolves to that draft's id.
C26_ScanResolvesTokenDraft ==
  [][(ScanAttemptStep /\ loc.saveRes.kind # "messages" /\ NewTokenDraftListed)
       => (loc'.newMessageId = NewId /\ loc'.picked.id = NewId)]_vars

ListedByAttempt == SeqTake(draftsFolder, MaxPages * PageSize)
InWindow ==
  {i \in DOMAIN ListedByAttempt :
     /\ ListedByAttempt[i].subject = loc.wantSubj
     /\ ListedByAttempt[i].date >= StartedAt - CutoffWindow}
CandidateIds ==
  IF InWindow # {} THEN {ListedByAttempt[i].id : i \in InWindow}
  ELSE LET newest == listLatestMessages(draftsFolder, 40)
       IN  {newest[i].id : i \in DOMAIN newest}
NewCandidateIds == CandidateIds \ SeqRange(loc.before)
\* The candidates the step examined.
ExaminedIds ==
  {loc'.checked[i].id : i \in (Len(loc.checked) + 1)..Len(loc'.checked)}

\* C28: a scan attempt examines only new candidates (absent from the
\* pre-save snapshot) when there is one, and otherwise examines the
\* candidates regardless of novelty, so that a draft saved in place under
\* its original id, whose body holds enough of the wanted lines, is resolved.
C28_NewPreferredElseAll ==
  [][ScanAttemptStep =>
       /\ NewCandidateIds # {} =>
            (ExaminedIds # {} /\ ExaminedIds \subseteq NewCandidateIds)
       /\ (NewCandidateIds = {} /\ CandidateIds # {}) =>
            /\ ExaminedIds # {} /\ ExaminedIds \subseteq CandidateIds
            /\ (/\ saveJob.state = "landed" /\ saveJob.mode = "inplace" /\ loc.replaced
                /\ args.messageId \in CandidateIds
                /\ Overlap(args.messageId) >= StatedThreshold)
                 => loc'.picked.id = args.messageId]_vars

\* The candidates whose body holds at least the threshold of wanted lines.
CrossingIds == {id \in CandidateIds : Overlap(id) >= StatedThreshold}
\* x comes before y in the stated priority order: new before old, then
\* higher score, then more recent.
IsNewId(id) == id \notin SeqRange(loc.before)
DateOfId(id) == MsgById(draftsFolder, id).date
Before(x, y) ==
  \/ IsNewId(x) /\ ~IsNewId(y)
  \/ IsNewId(x) = IsNewId(y) /\ Overlap(x) > Overlap(y)
  \/ IsNewId(x) = IsNewId(y) /\ Overlap(x) = Overlap(y) /\ DateOfId(x) > DateOfId(y)

\* C29: when candidates of a scan attempt cross the threshold, the attempt
\* accepts one of them, and none of the others comes before it in the
\* priority order.
C29_FirstInPriorityOrder ==
  [][(ScanAttemptStep /\ CrossingIds # {}) =>
       /\ loc'.picked.via = "scan" /\ loc'.picked.id \in CrossingIds
       /\ \A y \in CrossingIds : ~Before(y, loc'.picked.id)]_vars

\* The ids of the 15 newest messages of the folder, newest first.
NewestIds(f) ==
  LET sorted == SeqTake(SortedByDate(f), 15) IN [i \in DOMAIN sorted |-> sorted[i].id]
\* Positions from the start of the detection on.
AfterListenerPositions ==
  {"detect", "scan", "reconcile", "close", "blockedInAbortList", "blockedInTabsRemove"}
C30_State ==
  /\ saveJob.state # "none" => (loc.listener # "none" /\ Len(loc.before) <= 15)
  /\ rpc \in AfterListenerPositions => loc.listener = "removed"
  /\ ReturnedOk => loc.listener = "removed"
C30_Step ==
  /\ saveJob.state # saveJob'.state /\ saveJob.state = "none" =>
       /\ loc'.before = NewestIds(draftsFolder)
       /\ loc'.listener = "subscribed"
       /\ draftsFolder' = draftsFolder
  /\ saveJob.state # "none" => loc'.before = loc.before
  /\ loc'.afterSaveInfo # loc.afterSaveInfo =>
       (loc.listener = "subscribed" /\ saveJob.state = "landed" /\ peer' = peer)

\* C30: the snapshot (the ids of at most 15 newest messages of the folder
\* as it is before the save) is taken and the after-save listener
\* subscribed in the step that issues the save; the snapshot does not
\* change afterwards; the listener's flag changes only on the notification
\* for this call's tab, not on the save of another tab; and the listener
\* is removed before the detection starts.
C30_SnapshotAndListener == []C30_State /\ [][C30_Step]_vars
\* The second call's copy landed after the snapshot, while the listener
\* was subscribed, and the flag of this call is still unset.
C30_Witness ==
  /\ loc.listener = "subscribed" /\ saveJob.state # "none" /\ loc.before # <<>>
  /\ PeerNewId \in FolderIds(draftsFolder) /\ PeerNewId \notin SeqRange(loc.before)
  /\ ~loc.afterSaveInfo

\* ------------------------------------------------------------------------
\* Further properties of Part II
\* ------------------------------------------------------------------------
\* The ids a step removes from the folder.
RemovedIds == FolderIds(draftsFolder) \ FolderIds(draftsFolder')
C31_State ==
  (ReturnedOk /\ result.messageId = result.oldMessageId) =>
    (~result.deletedOld /\ ~loc.deleteAttempted)
C31_Step ==
  RemovedIds # {} =>
    /\ rpc = "reconcile"
    /\ loc.newMessageId # "" /\ loc.newMessageId # args.messageId
    /\ RemovedIds = {args.messageId}

\* C31: the call removes a message from the folder only in its
\* reconciliation, only the original, and only when the resolved id is
\* another id than the original's; when the call returns the original id
\* (detection timed out or resolved to it), deletedOld is false and no
\* deletion was attempted.
C31_DeletesOnlyOnOtherId == []C31_State /\ [][C31_Step]_vars
\* The detection timed out with a new copy in the folder: the call returned
\* the original id, and the original is still there.
C31_Witness ==
  /\ ReturnedOk /\ result.messageId = OrigId /\ result.oldMessageId = OrigId
  /\ loc.attempts = MaxAttempts /\ InFolder(NewId) /\ InFolder(OrigId)
  /\ ~result.deletedOld

\* The only message the backend adds to the folder after the snapshot is
\* the call's newly saved copy; every other id was in the folder when the
\* snapshot was taken.
PresentAtSnapshot(id) == id # NewId

\* C32: every candidate the scan classified as new was absent from the
\* folder when the pre-save snapshot was taken, and a message that was
\* present then is not picked as a new one.
C32_NewWasAbsentAtSnapshot ==
  /\ \A i \in DOMAIN loc.checked :
       loc.checked[i].isNew => ~PresentAtSnapshot(loc.checked[i].id)
  /\ (loc.picked.via = "scan" /\ PresentAtSnapshot(loc.picked.id)) =>
       \E i \in DOMAIN loc.checked :
         loc.checked[i].id = loc.picked.id /\ ~loc.checked[i].isNew

\* ------------------------------------------------------------------------
\* Further properties of Part I
\* ------------------------------------------------------------------------
\* C33: a call issues a save only on the compose window it opened itself:
\* every send listener held belongs to the call that opened the window
\* whose save it listens to.
C33_OnlyOwnSurface ==
  \A p \in _pendingSendListeners : p[1] = p[2]

\* ------------------------------------------------------------------------
\* Further properties of the scan
\* ------------------------------------------------------------------------
\* The folder holds the newly saved copy, which the snapshot does not have
\* and whose body holds every wanted line of a non-empty payload, and every
\* message of the folder is within the pages an attempt reads.
NewDraftWithAllFragmentsListed ==
  /\ args.plainTextBody # <<>> /\ loc.wantLines # <<>>
  /\ NewId \in FolderIds(draftsFolder) /\ NewId \notin SeqRange(loc.before)
  /\ SeqRange(loc.wantLines) \subseteq getRawMessage(draftsFolder, NewId)
  /\ Len(draftsFolder) <= MaxPages * PageSize

\* C34: when saveMessage returned no id and a scan attempt runs on a folder
\* holding a new draft whose body contains all wanted lines of the payload,
\* the attempt accepts that draft, whatever the number of wanted lines.
C34_AllFragmentsAccepted ==
  [][(ScanAttemptStep /\ loc.saveRes.kind # "messages" /\ NewDraftWithAllFragmentsListed)
       => (loc'.picked.id = NewId /\ loc'.newMessageId = NewId)]_vars

\* C35: when closeAfterSave is set and compose.beginNew opened a tab, the
\* tab is closed by the time the call has returned, whether it returned a
\* result or an error.
C35_TabClosedAtReturn ==
  (rpc = "returned" /\ args.closeAfterSave /\ tab # "none") => tab = "closed"

\* The promise of call c's _copyFileToFolderAsDraft, or of its
\* _saveDraftViaComposeWindow, is settled.
CopyPromiseSettled(c) == op[c] = "saveDraft" /\ bg[c] = "done"
SavePromiseSettled(c) == op[c] = "reply" /\ bg[c] \in {"resolved", "done"}
C36_State ==
  \A c \in Calls :
    /\ CopyPromiseSettled(c) => c \notin _pendingCopyListeners
    /\ SavePromiseSettled(c) => c \notin observers
C36_Step ==
  \A c \in Calls :
    (bg[c] = "done" /\ op[c] \in {"saveDraft", "reply"}) =>
      (bg'[c] = bg[c] /\ resp'[c] = resp[c])

\* C36: the promise of the copy and of the compose-window save settles
\* once: after it settled, neither the backend's callback nor the timer
\* changes the outcome; and once it is settled the copy listener is not in
\* _pendingCopyListeners and the window observer is not registered.
C36_SettlesOnceAndCleansUp == []C36_State /\ [][C36_Step]_vars

\* The key of the saveDraft request of call c (1524).
KeyOf(c) == SaveDraftKey(req[c].idempotencyKey, req[c].content)

\* C37: among saveDraft requests, one is answered "already pending" or
\* "already exists" only if an earlier request had the same key.
C37_DedupeOnlyOnSameKey ==
  (\A c \in Calls : op[c] \in {"none", "saveDraft"}) =>
    \A c \in Calls :
      resp[c].kind \in {"pending", "exists"} =>
        \E d \in 1..(c - 1) : tok[d] # NoId /\ KeyOf(d) = KeyOf(c)

====
